---- MODULE Spec2Model ----
(***************************************************************************)
(* A model of the trello-tools command line scripts.  Every script is a    *)
(* sequential pipeline: read the environment and the command line, fetch   *)
(* remote data, filter it, prompt on the console, issue mutating requests. *)
(* One run of one script is one behaviour; the variable script says which  *)
(* script runs and pc where it stands (one position per await).            *)
(***************************************************************************)
EXTENDS Integers, Sequences, FiniteSets, TLC

VARIABLES
    script,     \* the script this run executes
    pc,         \* position in the script (the await it is suspended at)
    exitCode,   \* -1 while running, else the process exit code
    env,        \* which configuration values process.env holds
    argv,       \* the command line after the script name
    flags,      \* the parsed command line
    board,      \* the lists of the remote board (id, name, closed)
    log,        \* the remote requests issued so far, in order
    confirmed,  \* history: --yes was passed or a prompt was answered yes
    prompts,    \* history: the cards prompted for, in order
    now,        \* dayjs() at the start of the run, in ticks
    slot,       \* the scheduling clock of the batch loop
    cards,      \* the cards fetched from the remote service
    work,       \* the candidates the batch loop iterates over
    idx,        \* loop index into work (0 before the loop is entered)
    sub,        \* index of the inner sequence: the list being fetched, the post being sent
    decided,    \* history: doUpdate / doComplete of each candidate handled
    store,      \* state that outlives the run: the decision cache file
    input,      \* what the run is given: a helper's argument, the pull requests found
    output      \* what the run computes: a helper's result, the decision cache in memory

vars == <<script, pc, exitCode, env, argv, flags, board, log, confirmed,
          prompts, now, slot, cards, work, idx, sub, decided, store, input, output>>

(* What a run reads and never writes *)
runVars == <<script, env, argv, flags, board, now>>

----------------------------------------------------------------------------
(* Bounds of the model *)

MaxCards == 3
MaxReviewCards == 2
TicksPerMinute == 2

(* Program constants *)

incrementMinutes == 15

----------------------------------------------------------------------------
(* Local time: dayjs values as ticks since today 00:00 local.              *)

TicksPerHour == 60 * TicksPerMinute
TicksPerDay == 24 * TicksPerHour

At(day, h, m, t) == day * TicksPerDay + h * TicksPerHour + m * TicksPerMinute + t

startOfDay(t) == (t \div TicksPerDay) * TicksPerDay
endOfDay(t) == startOfDay(t) + TicksPerDay - 1
formatDate(t) == t \div TicksPerDay
minuteOf(t) == ((t % TicksPerDay) \div TicksPerMinute) % 60
setHourMinuteZero(t, h, m) == startOfDay(t) + h * TicksPerHour + m * TicksPerMinute
setMinute(t, n) == t + (n - minuteOf(t)) * TicksPerMinute
zeroSeconds(t) == (t \div TicksPerMinute) * TicksPerMinute
addMinutes(t, n) == t + n * TicksPerMinute
addDays(t, n) == t + n * TicksPerDay
isBeforeDay(a, b) == endOfDay(a) < b
ceilTo5(m) == ((m + 4) \div 5) * 5

NoDue == [set |-> FALSE, at |-> 0]
Due(t) == [set |-> TRUE, at |-> t]

Range(f) == {f[i] : i \in DOMAIN f}
Has(args, tok) == \E i \in DOMAIN args : args[i] = tok

----------------------------------------------------------------------------
(* Remote data.  Member 1 is the current user (getMe().id).                *)

myId == 1

ListNames == {"Doing", "DOING", "Doing later", "Ready for review & testing (developers)",
              "Review", "Rejected", "Done"}

toLowerCase(s) ==
    CASE s = "Doing" -> "doing"
      [] s = "DOING" -> "doing"
      [] s = "Doing later" -> "doing later"
      [] s = "Ready for review & testing (developers)" -> "ready for review & testing (developers)"
      [] s = "Review" -> "review"
      [] s = "Rejected" -> "rejected"
      [] s = "Done" -> "done"
      [] OTHER -> s

List(id, name, closed) == [id |-> id, name |-> name, closed |-> closed]

Boards ==
    { << List(1, "Doing", FALSE), List(2, "Ready for review & testing (developers)", FALSE),
         List(3, "Review", FALSE), List(4, "Rejected", FALSE), List(5, "Done", FALSE) >>,
      << List(1, "Doing", TRUE), List(2, "DOING", FALSE), List(3, "Rejected", FALSE),
         List(4, "Review", TRUE) >>,
      << List(1, "Doing later", FALSE), List(2, "Done", FALSE) >> }

NoList == List(0, "", FALSE)

(* lib/trello *)

ensureConfig_keyOnly == env.key

ensureConfig == env.key /\ env.token

Request(op, mut, card, arg, ok) ==
    [op |-> op, mut |-> mut, card |-> card, arg |-> arg, ok |-> ok]

Issue(op, mut, card, arg, ok) == log' = Append(log, Request(op, mut, card, arg, ok))

getBoardLists(includeClosed) ==
    IF includeClosed THEN board ELSE SelectSeq(board, LAMBDA l : ~l.closed)

(* lists.find((l) => (l.name || '').toLowerCase() === lower) || null *)
findByLowerName(lists, lower) ==
    LET matches(i) == toLowerCase(lists[i].name) = lower
    IN IF \E i \in DOMAIN lists : matches(i)
       THEN lists[CHOOSE i \in DOMAIN lists : matches(i) /\ \A j \in 1..(i - 1) : ~matches(j)]
       ELSE NoList

getListByName_withClosed(name) == findByLowerName(getBoardLists(TRUE), toLowerCase(name))

getListByName(name) == findByLowerName(getBoardLists(FALSE), toLowerCase(name))


Exit(code) == pc' = "exit" /\ exitCode' = code

DefaultEnv ==
    [key |-> TRUE, token |-> TRUE, boardId |-> TRUE, doingListId |-> 0,
     reviewListId |-> 0, rejectedListId |-> 0, doneListId |-> 0, doneListName |-> "",
     github |-> TRUE, openrouter |-> TRUE, mattermost |-> TRUE]

DefaultFlags ==
    [dryRun |-> FALSE, yes |-> FALSE, all |-> FALSE, card |-> FALSE, to |-> "",
     complete |-> "", title |-> FALSE, apply |-> FALSE, force |-> FALSE,
     listOnly |-> FALSE, merge |-> "prepend"]

(* The optional tokens of a command line, each present or not, in order. *)
RECURSIVE Optional(_)
Optional(toks) ==
    IF toks = << >> THEN { << >> }
    ELSE LET rest == Optional(Tail(toks))
         IN rest \cup { <<Head(toks)>> \o r : r \in rest }

(* What every run starts from; each script's Init sets the rest. *)
InitRun(s) ==
    /\ script = s
    /\ pc = "main"
    /\ exitCode = -1
    /\ log = << >>
    /\ prompts = << >>
    /\ slot = 0
    /\ cards = << >>
    /\ work = << >>
    /\ idx = 0
    /\ sub = 0
    /\ decided = << >>
    /\ output = << >>

----------------------------------------------------------------------------
(* due-today.js *)

StartTimes ==
    { At(0, 0, 0, 0), At(0, 9, 0, 0), At(0, 10, 5, 1), At(0, 10, 7, 0),
      At(0, 23, 40, 0), At(0, 23, 56, 1) }

Card(id, members, due) == [id |-> id, idMembers |-> members, due |-> due]

(* (idMembers, due) of the cards the Doing list may hold *)
DoingCardKinds ==
    { <<{myId}, NoDue>>, <<{myId}, Due(At(-8, 10, 0, 0))>>, <<{myId}, Due(At(-7, 0, 0, 0))>>,
      <<{myId, 2}, Due(At(-1, 23, 59, 1))>>, <<{myId}, Due(At(0, 0, 0, 0))>>,
      <<{2}, Due(At(-1, 12, 0, 0))>> }

DoingCardLists ==
    UNION { { [i \in 1..n |-> Card(i, k[i][1], k[i][2])] : k \in [1..n -> DoingCardKinds] }
            : n \in 0..MaxCards }

isPastDueButNotToday_noBefore(due, t) ==
    IF ~due.set THEN FALSE ELSE formatDate(due.at) # formatDate(t)

isPastDueButNotToday(due, t) ==
    IF ~due.set THEN FALSE
    ELSE isBeforeDay(due.at, t) /\ formatDate(due.at) # formatDate(t)

(* due-today.js:110-115 *)
firstSlot(t) ==
    LET nine == setHourMinuteZero(t, 9, 0)
    IN IF nine < t THEN zeroSeconds(setMinute(t, ceilTo5(minuteOf(t)))) ELSE nine

nextSlot_stuck(s) == s

nextSlot(s) == addMinutes(s, incrementMinutes)

dueTodayCandidates(cs, t) ==
    SelectSeq(cs, LAMBDA c : myId \in c.idMembers /\ isPastDueButNotToday(c.due, t))

dueTodayRecent_all(cs, t) == cs

dueTodayRecent(cs, t) ==
    SelectSeq(cs, LAMBDA c : ~isBeforeDay(c.due.at, addDays(t, -7)))

(* due-today.js:85-93: the cards printed under "older than a week" *)
dueTodayTooOld(cs, t) ==
    SelectSeq(cs, LAMBDA c : isBeforeDay(c.due.at, addDays(t, -7)))

DT_parseArgs(a) ==
    [DefaultFlags EXCEPT !.dryRun = Has(a, "--dry-run"), !.yes = Has(a, "--yes")]

DT_Init ==
    /\ InitRun("due-today")
    /\ board \in Boards
    /\ input = << >>
    /\ env \in { [DefaultEnv EXCEPT !.key = k, !.token = tk, !.boardId = b, !.doingListId = d]
                 : k \in BOOLEAN, tk \in BOOLEAN, b \in BOOLEAN, d \in {0, 2} }
    /\ argv \in Optional(<<"--dry-run", "--yes">>)
    /\ flags = DT_parseArgs(argv)
    /\ confirmed = flags.yes
    /\ now \in StartTimes
    /\ store = << >>

DT_Main ==
    /\ script = "due-today" /\ pc = "main"
    /\ IF ~env.key \/ ~env.token \/ ~ensureConfig
       THEN Exit(1)
       ELSE pc' = "getMe" /\ UNCHANGED exitCode
    /\ UNCHANGED <<runVars, log, confirmed, prompts, slot, cards, work, idx, decided,
                   sub, store, input, output>>

DT_GetMe ==
    /\ script = "due-today" /\ pc = "getMe"
    /\ \E ok \in BOOLEAN :
          /\ Issue("getMe", FALSE, 0, 0, ok)
          /\ IF ok THEN pc' = "getDoingListId" /\ UNCHANGED exitCode ELSE Exit(1)
    /\ UNCHANGED <<runVars, confirmed, prompts, slot, cards, work, idx, decided, sub, store,
                   input, output>>

(* getDoingListId, due-today.js:34-40 *)
DT_GetDoingListId ==
    /\ script = "due-today" /\ pc = "getDoingListId"
    /\ IF env.doingListId # 0
       THEN pc' = "getListCards" /\ UNCHANGED <<exitCode, log>>
       ELSE IF ~env.boardId
       THEN Exit(1) /\ UNCHANGED log
       ELSE \E ok \in BOOLEAN :
               /\ Issue("getBoardLists", FALSE, 0, 0, ok)
               /\ IF ok /\ getListByName("Doing") # NoList
                  THEN pc' = "getListCards" /\ UNCHANGED exitCode
                  ELSE Exit(1)
    /\ UNCHANGED <<runVars, confirmed, prompts, slot, cards, work, idx, decided, sub, store,
                   input, output>>

(* due-today.js:72-116: fetch, filter, split by age, preview, dry run, first slot *)
DT_GetListCards ==
    /\ script = "due-today" /\ pc = "getListCards"
    /\ \E ok \in BOOLEAN, cs \in DoingCardLists :
          /\ Issue("getListCards", FALSE, 0, 0, ok)
          /\ IF ~ok
             THEN Exit(1) /\ UNCHANGED <<cards, work, slot, idx, output>>
             ELSE LET candidates == dueTodayCandidates(cs, now)
                      recent == dueTodayRecent(candidates, now)
                  IN /\ cards' = cs
                     /\ output' = dueTodayTooOld(candidates, now)
                     /\ IF candidates = << >> \/ recent = << >> \/ flags.dryRun
                        THEN Exit(0) /\ UNCHANGED <<work, slot, idx>>
                        ELSE /\ work' = recent
                             /\ slot' = firstSlot(now)
                             /\ idx' = 1
                             /\ pc' = "loop"
                             /\ UNCHANGED exitCode
    /\ UNCHANGED <<runVars, confirmed, prompts, decided, sub, store, input>>

(* due-today.js:118-124 and 129-131: the prompt, and the skip on decline *)
DT_Loop ==
    /\ script = "due-today" /\ pc = "loop" /\ idx <= Len(work)
    /\ IF flags.yes
       THEN /\ decided' = Append(decided, TRUE)
            /\ pc' = "update"
            /\ UNCHANGED <<prompts, confirmed, idx>>
       ELSE \E resp \in BOOLEAN :
               /\ prompts' = Append(prompts, work[idx].id)
               /\ decided' = Append(decided, resp)
               /\ confirmed' = (confirmed \/ resp)
               /\ IF resp THEN pc' = "update" /\ UNCHANGED idx
                          ELSE pc' = "loop" /\ idx' = idx + 1
    /\ UNCHANGED <<runVars, exitCode, log, slot, cards, work, sub, store, input, output>>

(* due-today.js:125-128, and the catch at 135-138 when the update throws *)
DT_Update ==
    /\ script = "due-today" /\ pc = "update"
    /\ \E ok \in BOOLEAN :
          /\ Issue("updateCardDue", TRUE, work[idx].id, slot, ok)
          /\ IF ok
             THEN /\ slot' = nextSlot(slot)
                  /\ idx' = idx + 1
                  /\ pc' = "loop"
                  /\ UNCHANGED exitCode
             ELSE Exit(1) /\ UNCHANGED <<slot, idx>>
    /\ UNCHANGED <<runVars, confirmed, prompts, cards, work, decided, sub, store, input,
                   output>>

DT_Done ==
    /\ script = "due-today" /\ pc = "loop" /\ idx > Len(work)
    /\ Exit(0)
    /\ UNCHANGED <<runVars, log, confirmed, prompts, slot, cards, work, idx, decided,
                   sub, store, input, output>>

DT_Next ==
    \/ DT_Main
    \/ DT_GetMe
    \/ DT_GetDoingListId
    \/ DT_GetListCards
    \/ DT_Loop
    \/ DT_Update
    \/ DT_Done

SpecDueToday == DT_Init /\ [][DT_Next]_vars

----------------------------------------------------------------------------
(* The helper isPastDueButNotToday applied to one (due, now) pair.         *)

MaxDayOffset == 2

TimesOfDay == { At(0, 0, 0, 0), At(0, 9, 0, 0), At(0, 12, 0, 1), At(0, 23, 59, TicksPerMinute - 1) }

PD_Init ==
    /\ InitRun("isPastDueButNotToday")
    /\ env = DefaultEnv
    /\ argv = << >>
    /\ flags = DefaultFlags
    /\ confirmed = FALSE
    /\ store = << >>
    /\ now \in TimesOfDay
    /\ board = << >>
    /\ \E d \in { NoDue } \cup { Due(addDays(t, k)) : t \in TimesOfDay,
                                                    k \in (-MaxDayOffset)..MaxDayOffset } :
          input = << d >>

PD_Apply ==
    /\ script = "isPastDueButNotToday" /\ pc = "main"
    /\ output' = << isPastDueButNotToday(input[1], now) >>
    /\ pc' = "exit"
    /\ UNCHANGED <<runVars, exitCode, log, confirmed, prompts, slot, cards, work, idx,
                   decided, sub, store, input>>

PD_Next == PD_Apply

SpecIsPastDue == PD_Init /\ [][PD_Next]_vars

----------------------------------------------------------------------------
(* Claims about due-today *)

dueWrites == SelectSeq(log, LAMBDA r : r.op = "updateCardDue")

RECURSIVE CountTrue(_)
CountTrue(seq) ==
    IF seq = << >> THEN 0 ELSE (IF Head(seq) THEN 1 ELSE 0) + CountTrue(Tail(seq))

(* The candidates confirmed so far, in order *)
confirmedCards ==
    LET RECURSIVE Pick(_)
        Pick(i) == IF i > Len(decided) THEN << >>
                   ELSE (IF decided[i] THEN << work[i].id >> ELSE << >>) \o Pick(i + 1)
    IN Pick(1)

(* C3: in due-today's batch loop every confirmed candidate (answered yes, or
   --yes) gets exactly one updateCardDue, issued in candidate order with the slot
   of that moment, a declined candidate gets none, the slot advances by 15
   minutes after each update and not otherwise; so the due timestamps written
   are strictly increasing and pairwise distinct. *)
C3_SlotsAdvance ==
    script = "due-today" /\ idx > 0 =>
        LET w == dueWrites
            pending == IF pc = "update" THEN 1 ELSE 0
        IN /\ Len(w) = CountTrue(decided) - pending
           /\ \A i \in 1..Len(w) :
                 /\ w[i].card = confirmedCards[i]
                 /\ w[i].arg = firstSlot(now) + (i - 1) * 15 * TicksPerMinute
           /\ slot = firstSlot(now) + 15 * TicksPerMinute * Cardinality({i \in 1..Len(w) : w[i].ok})
           /\ \A i, j \in 1..Len(w) : i < j => w[i].arg < w[j].arg

C3_Witness ==
    /\ script = "due-today"
    /\ Len(dueWrites) = 2
    /\ decided = <<FALSE, TRUE, TRUE>>
    /\ pc = "loop"

(* C9: every due timestamp due-today writes lies on the local calendar day of
   the run. *)
C9_DueIsToday ==
    script = "due-today" =>
        \A i \in 1..Len(dueWrites) : formatDate(dueWrites[i].arg) = formatDate(now)

(* C10: isPastDueButNotToday(due, now) is true exactly when due is present and
   its calendar day is strictly before now's calendar day; it is false for a due
   on now's day, on a later day, and for an absent due. *)
C10_PastDue ==
    script = "isPastDueButNotToday" /\ output # << >> =>
        output[1] = (input[1].set /\ formatDate(input[1].at) < formatDate(now))

C10_Witness ==
    /\ script = "isPastDueButNotToday"
    /\ output = << TRUE >>
    /\ formatDate(input[1].at) = formatDate(now) - 1

----------------------------------------------------------------------------
(* review-week.js *)

lastNDays == 4

RWCard(id, idList, closed, dueComplete, members, due) ==
    [id |-> id, idList |-> idList, closed |-> closed, dueComplete |-> dueComplete,
     idMembers |-> members, due |-> due]

(* (closed, dueComplete, idMembers, due) of the cards a list may hold *)
ReviewCardKinds ==
    { <<FALSE, FALSE, {myId}, Due(At(0, 12, 0, 0))>>,
      <<FALSE, FALSE, {2}, Due(At(-1, 9, 0, 0))>>,
      <<TRUE, FALSE, {myId}, Due(At(0, 12, 0, 0))>>,
      <<FALSE, TRUE, {myId}, Due(At(-2, 12, 0, 0))>>,
      <<FALSE, FALSE, {myId}, NoDue>>,
      <<FALSE, FALSE, {myId}, Due(At(-5, 23, 59, 1))>>,
      <<FALSE, FALSE, {myId}, Due(At(2, 9, 0, 0))>> }

(* The cards one list fetch may return, numbered after the n cards already fetched *)
ReviewCardLists(n, idList) ==
    UNION { { [i \in 1..m |-> RWCard(n + i, idList, k[i][1], k[i][2], k[i][3], k[i][4])]
              : k \in [1..m -> ReviewCardKinds] }
            : m \in 0..(MaxReviewCards - n) }

(* resolveDoneListId, lib/trello *)
resolveDoneListId(boardLists, doneId, doneName) ==
    IF doneId # 0 THEN doneId
    ELSE IF doneName # "" /\ findByLowerName(boardLists, toLowerCase(doneName)) # NoList
    THEN findByLowerName(boardLists, toLowerCase(doneName)).id
    ELSE 0

doneListId == resolveDoneListId(getBoardLists(FALSE), env.doneListId, env.doneListName)

includeNames == {"doing", "review", "code review", "in review"}

scopeLists_withDone ==
    SelectSeq(getBoardLists(FALSE),
              LAMBDA l : includeNames = {} \/ toLowerCase(l.name) \in includeNames)

scopeLists ==
    SelectSeq(getBoardLists(FALSE),
              LAMBDA l : ~(doneListId # 0 /\ l.id = doneListId)
                         /\ (includeNames = {} \/ toLowerCase(l.name) \in includeNames))

(* now.day(): 0 is Sunday; day 0 of the model's clock is a Monday *)
dayOfWeek(t) == (formatDate(t) + 1) % 7

(* getWeekRange, review-week.js:42-49; main does not call it *)
getWeekRange(t) ==
    LET daysFromMon == IF dayOfWeek(t) = 0 THEN 6 ELSE dayOfWeek(t) - 1
        start == addDays(startOfDay(t), -daysFromMon)
    IN [start |-> start, end |-> endOfDay(addDays(start, 6))]

reviewCandidates(cs, t, allMembers) ==
    LET start == startOfDay(addDays(t, -lastNDays))
        end == endOfDay(t)
    IN SelectSeq(cs, LAMBDA c :
          /\ ~c.closed
          /\ ~c.dueComplete
          /\ c.due.set
          /\ c.due.at >= start /\ c.due.at <= end
          /\ (allMembers \/ myId \in c.idMembers))

RW_parseArgs(a) ==
    [DefaultFlags EXCEPT !.dryRun = Has(a, "--dry-run"), !.yes = Has(a, "--yes"),
                         !.all = Has(a, "--all")]

RW_Init ==
    /\ InitRun("review-week")
    /\ board \in Boards
    /\ input = << >>
    /\ env \in { [DefaultEnv EXCEPT !.key = k, !.token = tk, !.boardId = b,
                                    !.doneListId = d[1], !.doneListName = d[2]]
                 : k \in BOOLEAN, tk \in BOOLEAN, b \in BOOLEAN,
                   d \in {<<0, "">>, <<5, "">>, <<3, "">>, <<0, "done">>} }
    /\ argv \in Optional(<<"--dry-run", "--yes", "--all">>)
    /\ flags = RW_parseArgs(argv)
    /\ confirmed = flags.yes
    /\ now = At(0, 10, 7, 0)
    /\ store = << >>

RW_Main ==
    /\ script = "review-week" /\ pc = "main"
    /\ IF ~env.key \/ ~env.token \/ ~env.boardId \/ ~ensureConfig
       THEN Exit(1)
       ELSE pc' = "getBoardLists" /\ UNCHANGED exitCode
    /\ UNCHANGED <<runVars, log, confirmed, prompts, slot, cards, work, idx, decided,
                   sub, store, input, output>>

RW_GetBoardLists ==
    /\ script = "review-week" /\ pc = "getBoardLists"
    /\ \E ok \in BOOLEAN :
          /\ Issue("getBoardLists", FALSE, 0, 0, ok)
          /\ IF ok THEN pc' = "getListCards" /\ sub' = 1 /\ UNCHANGED exitCode
                   ELSE Exit(1) /\ UNCHANGED sub
    /\ UNCHANGED <<runVars, confirmed, prompts, slot, cards, work, idx, decided, store,
                   input, output>>

(* review-week.js:95-98: one fetch per list in scope *)
RW_GetListCards ==
    /\ script = "review-week" /\ pc = "getListCards" /\ sub <= Len(scopeLists)
    /\ \E ok \in BOOLEAN, cs \in ReviewCardLists(Len(cards), scopeLists[sub].id) :
          /\ Issue("getListCards", FALSE, 0, scopeLists[sub].id, ok)
          /\ IF ok THEN cards' = cards \o cs /\ sub' = sub + 1 /\ UNCHANGED <<pc, exitCode>>
                   ELSE Exit(1) /\ UNCHANGED <<cards, sub>>
    /\ UNCHANGED <<runVars, confirmed, prompts, slot, work, idx, decided, store, input,
                   output>>

(* review-week.js:101-133: current user, filter, preview, dry run *)
RW_Filter ==
    /\ script = "review-week" /\ pc = "getListCards" /\ sub > Len(scopeLists)
    /\ \E ok \in BOOLEAN :
          /\ IF flags.all THEN ok /\ UNCHANGED log ELSE Issue("getMe", FALSE, 0, 0, ok)
          /\ IF ~ok
             THEN Exit(1) /\ UNCHANGED <<work, idx>>
             ELSE LET candidates == reviewCandidates(cards, now, flags.all)
                  IN IF candidates = << >> \/ flags.dryRun
                     THEN Exit(0) /\ UNCHANGED <<work, idx>>
                     ELSE /\ work' = candidates
                          /\ idx' = 1
                          /\ pc' = "loop"
                          /\ UNCHANGED exitCode
    /\ UNCHANGED <<runVars, confirmed, prompts, slot, cards, decided, sub, store, input,
                   output>>

RW_Loop ==
    /\ script = "review-week" /\ pc = "loop" /\ idx <= Len(work)
    /\ IF flags.yes
       THEN /\ decided' = Append(decided, TRUE)
            /\ pc' = "setCardDueComplete"
            /\ UNCHANGED <<prompts, confirmed, idx>>
       ELSE \E resp \in BOOLEAN :
               /\ prompts' = Append(prompts, work[idx].id)
               /\ decided' = Append(decided, resp)
               /\ confirmed' = (confirmed \/ resp)
               /\ IF resp THEN pc' = "setCardDueComplete" /\ UNCHANGED idx
                          ELSE pc' = "loop" /\ idx' = idx + 1
    /\ UNCHANGED <<runVars, exitCode, log, slot, cards, work, sub, store, input, output>>

RW_SetCardDueComplete ==
    /\ script = "review-week" /\ pc = "setCardDueComplete"
    /\ \E ok \in BOOLEAN :
          /\ Issue("setCardDueComplete", TRUE, work[idx].id, 1, ok)
          /\ IF ~ok
             THEN Exit(1) /\ UNCHANGED idx
             ELSE IF doneListId # 0 /\ work[idx].idList # doneListId
             THEN pc' = "moveCardToList" /\ UNCHANGED <<exitCode, idx>>
             ELSE pc' = "loop" /\ idx' = idx + 1 /\ UNCHANGED exitCode
    /\ UNCHANGED <<runVars, confirmed, prompts, slot, cards, work, decided, sub, store,
                   input, output>>

RW_MoveCardToList ==
    /\ script = "review-week" /\ pc = "moveCardToList"
    /\ \E ok \in BOOLEAN :
          /\ Issue("moveCardToList", TRUE, work[idx].id, doneListId, ok)
          /\ IF ok THEN pc' = "loop" /\ idx' = idx + 1 /\ UNCHANGED exitCode
                   ELSE Exit(1) /\ UNCHANGED idx
    /\ UNCHANGED <<runVars, confirmed, prompts, slot, cards, work, decided, sub, store,
                   input, output>>

RW_Done ==
    /\ script = "review-week" /\ pc = "loop" /\ idx > Len(work)
    /\ Exit(0)
    /\ UNCHANGED <<runVars, log, confirmed, prompts, slot, cards, work, idx, decided,
                   sub, store, input, output>>

RW_Next ==
    \/ RW_Main
    \/ RW_GetBoardLists
    \/ RW_GetListCards
    \/ RW_Filter
    \/ RW_Loop
    \/ RW_SetCardDueComplete
    \/ RW_MoveCardToList
    \/ RW_Done

SpecReviewWeek == RW_Init /\ [][RW_Next]_vars

----------------------------------------------------------------------------
(* create-card.js *)

startsWithDashes(tok) == tok \in {"--dry-run", "--yes", "--card", "--to", "--complete"}

(* Sequences without repetition over toks *)
RECURSIVE Arrangements(_)
Arrangements(toks) ==
    { << >> } \cup UNION { { <<t>> \o r : r \in Arrangements(toks \ {t}) } : t \in toks }

(* parseArgs, create-card.js:28-46: a flag takes the next token as its value
   unless that token is missing, empty or starts with "--"; either value is truthy *)
RECURSIVE CC_parseFrom(_, _, _)
CC_parseFrom(a, i, acc) ==
    IF i > Len(a) THEN acc
    ELSE IF startsWithDashes(a[i])
    THEN LET takesValue == i + 1 <= Len(a) /\ a[i + 1] # "" /\ ~startsWithDashes(a[i + 1])
             acc2 == IF a[i] = "--dry-run" THEN [acc EXCEPT !.dryRun = TRUE]
                     ELSE IF a[i] = "--yes" THEN [acc EXCEPT !.yes = TRUE]
                     ELSE acc
         IN CC_parseFrom(a, IF takesValue THEN i + 2 ELSE i + 1, acc2)
    ELSE CC_parseFrom(a, i + 1, [acc EXCEPT !.args = Append(acc.args, a[i])])

CC_parseArgs(a) == CC_parseFrom(a, 1, [args |-> << >>, dryRun |-> FALSE, yes |-> FALSE])

CC_flags(a) ==
    [DefaultFlags EXCEPT !.dryRun = CC_parseArgs(a).dryRun, !.yes = CC_parseArgs(a).yes,
                         !.title = (CC_parseArgs(a).args # << >>)]

CC_Init ==
    /\ InitRun("create-card")
    /\ board \in Boards
    /\ input = << >>
    /\ env \in { [DefaultEnv EXCEPT !.key = k, !.token = tk, !.boardId = b, !.doingListId = d]
                 : k \in BOOLEAN, tk \in BOOLEAN, b \in BOOLEAN, d \in {0, 2} }
    /\ argv \in Arrangements({"--dry-run", "--yes", "Title", "Desc"})
    /\ flags = CC_flags(argv)
    /\ confirmed = Has(argv, "--yes")
    /\ now = At(0, 10, 7, 0)
    /\ store = << >>

(* create-card.js:105-124 with resolveListId, 48-61 *)
CC_Main ==
    /\ script = "create-card" /\ pc = "main"
    /\ IF ~ensureConfig \/ ~flags.title
       THEN Exit(1) /\ UNCHANGED log
       ELSE IF env.doingListId # 0
       THEN pc' = "getMe" /\ UNCHANGED <<exitCode, log>>
       ELSE IF ~env.boardId
       THEN Exit(1) /\ UNCHANGED log
       ELSE \E ok \in BOOLEAN :
               /\ Issue("getBoardLists", FALSE, 0, 0, ok)
               /\ IF ok /\ getListByName("Doing") # NoList
                  THEN pc' = "getMe" /\ UNCHANGED exitCode
                  ELSE Exit(1)
    /\ UNCHANGED <<runVars, confirmed, prompts, slot, cards, work, idx, decided, sub, store,
                   input, output>>

CC_GetMe ==
    /\ script = "create-card" /\ pc = "getMe"
    /\ \E ok \in BOOLEAN :
          /\ Issue("getMe", FALSE, 0, 0, ok)
          /\ IF ok THEN pc' = "fetchListName" /\ UNCHANGED exitCode ELSE Exit(1)
    /\ UNCHANGED <<runVars, confirmed, prompts, slot, cards, work, idx, decided, sub, store,
                   input, output>>

(* create-card.js:139-146: fetchListName swallows its error; preview; dry run *)
CC_FetchListName ==
    /\ script = "create-card" /\ pc = "fetchListName"
    /\ \E ok \in BOOLEAN : Issue("getList", FALSE, 0, 0, ok)
    /\ IF flags.dryRun THEN Exit(0) ELSE pc' = "confirm" /\ UNCHANGED exitCode
    /\ UNCHANGED <<runVars, confirmed, prompts, slot, cards, work, idx, decided, sub, store,
                   input, output>>

(* create-card.js:148-155 *)
CC_Confirm ==
    /\ script = "create-card" /\ pc = "confirm"
    /\ IF flags.yes
       THEN pc' = "createCard" /\ UNCHANGED <<exitCode, prompts, confirmed>>
       ELSE \E resp \in BOOLEAN :
               /\ prompts' = Append(prompts, 0)
               /\ confirmed' = (confirmed \/ resp)
               /\ IF resp THEN pc' = "createCard" /\ UNCHANGED exitCode ELSE Exit(0)
    /\ UNCHANGED <<runVars, log, slot, cards, work, idx, decided, sub, store, input, output>>

(* create-card.js:157-174 *)
CC_CreateCard ==
    /\ script = "create-card" /\ pc = "createCard"
    /\ \E ok \in BOOLEAN :
          /\ Issue("createCard", TRUE, 0, 0, ok)
          /\ Exit(IF ok THEN 0 ELSE 1)
    /\ UNCHANGED <<runVars, confirmed, prompts, slot, cards, work, idx, decided, sub, store,
                   input, output>>

CC_Next ==
    \/ CC_Main
    \/ CC_GetMe
    \/ CC_FetchListName
    \/ CC_Confirm
    \/ CC_CreateCard

SpecCreateCard == CC_Init /\ [][CC_Next]_vars

----------------------------------------------------------------------------
(* trello-set-state.js *)

(* parseArgs, trello-set-state.js:34-46: --card, --to and --complete take the
   next token as their value, whatever it is *)
RECURSIVE SS_parseFrom(_, _, _)
SS_parseFrom(a, i, acc) ==
    IF i > Len(a) THEN acc
    ELSE LET value == IF i + 1 <= Len(a) THEN a[i + 1] ELSE ""
         IN CASE a[i] = "--card" ->
                   SS_parseFrom(a, i + 2, [acc EXCEPT !.card = (value # ""), !.cardArg = value])
              [] a[i] = "--to" -> SS_parseFrom(a, i + 2, [acc EXCEPT !.to = value])
              [] a[i] = "--complete" -> SS_parseFrom(a, i + 2, [acc EXCEPT !.complete = value])
              [] a[i] = "--dry-run" -> SS_parseFrom(a, i + 1, [acc EXCEPT !.dryRun = TRUE])
              [] a[i] = "--yes" -> SS_parseFrom(a, i + 1, [acc EXCEPT !.yes = TRUE])
              [] OTHER -> SS_parseFrom(a, i + 1, acc)

SS_parseArgs(a) ==
    SS_parseFrom(a, 1, [card |-> FALSE, cardArg |-> "", to |-> "", complete |-> "",
                        dryRun |-> FALSE, yes |-> FALSE])

SS_flags(a) ==
    LET p == SS_parseArgs(a)
    IN [DefaultFlags EXCEPT !.card = p.card, !.to = p.to, !.complete = p.complete,
                            !.dryRun = p.dryRun, !.yes = p.yes]

SS_Argvs ==
    { <<"--card", "c1">> \o to \o complete \o rest :
        to \in { << >>, <<"--to", "review">>, <<"--to", "rejected">> },
        complete \in { << >>, <<"--complete">>, <<"--complete", "true">>,
                       <<"--complete", "false">> },
        rest \in Optional(<<"--dry-run", "--yes">>) }

(* completeFlag, trello-set-state.js:102: 1 true, 0 false, -1 null *)
completeFlag == IF flags.complete = "true" THEN 1 ELSE IF flags.complete = "false" THEN 0 ELSE -1

SS_Init ==
    /\ InitRun("trello-set-state")
    /\ board \in Boards
    /\ input = << >>
    /\ env \in { [DefaultEnv EXCEPT !.key = k, !.boardId = b, !.reviewListId = r]
                 : k \in BOOLEAN, b \in BOOLEAN, r \in {0, 3} }
    /\ argv \in SS_Argvs
    /\ flags = SS_flags(argv)
    /\ confirmed = Has(argv, "--yes")
    /\ now = At(0, 10, 7, 0)
    /\ store = << >>

(* resolveTargetListId, trello-set-state.js:76-92: 0 when it throws before any request *)
SS_needsLookup ==
    \/ flags.to = "review" /\ env.reviewListId = 0 /\ env.boardId
    \/ flags.to = "rejected" /\ env.rejectedListId = 0 /\ env.boardId

SS_resolved(ok) ==
    CASE flags.to = "review" ->
            IF env.reviewListId # 0 THEN env.reviewListId
            ELSE IF env.boardId /\ ok THEN getListByName("Review").id ELSE 0
      [] flags.to = "rejected" ->
            IF env.rejectedListId # 0 THEN env.rejectedListId
            ELSE IF env.boardId /\ ok THEN getListByName("Rejected").id ELSE 0
      [] OTHER -> 0

SS_Main ==
    /\ script = "trello-set-state" /\ pc = "main"
    /\ IF ~ensureConfig THEN Exit(1)
       ELSE IF ~flags.card \/ (flags.to = "" /\ flags.complete = "") THEN Exit(0)
       ELSE pc' = "getCard" /\ UNCHANGED exitCode
    /\ UNCHANGED <<runVars, log, confirmed, prompts, slot, cards, work, idx, decided,
                   sub, store, input, output>>

SS_GetCard ==
    /\ script = "trello-set-state" /\ pc = "getCard"
    /\ \E ok \in BOOLEAN :
          /\ Issue("getCard", FALSE, 1, 0, ok)
          /\ IF ok THEN pc' = "resolveTargetListId" /\ UNCHANGED exitCode ELSE Exit(1)
    /\ UNCHANGED <<runVars, confirmed, prompts, slot, cards, work, idx, decided, sub, store,
                   input, output>>

(* trello-set-state.js:112-126 *)
SS_ResolveTargetListId ==
    /\ script = "trello-set-state" /\ pc = "resolveTargetListId"
    /\ \E ok \in BOOLEAN :
          /\ IF SS_needsLookup THEN Issue("getBoardLists", FALSE, 0, 0, ok)
                               ELSE ok /\ UNCHANGED log
          /\ IF flags.to # "" /\ SS_resolved(ok) = 0
             THEN Exit(1) /\ UNCHANGED slot
             ELSE /\ slot' = SS_resolved(ok)
                  /\ IF flags.dryRun THEN Exit(0) ELSE pc' = "confirm" /\ UNCHANGED exitCode
    /\ UNCHANGED <<runVars, confirmed, prompts, cards, work, idx, decided, sub, store,
                   input, output>>

(* trello-set-state.js:128-132 *)
SS_Confirm ==
    /\ script = "trello-set-state" /\ pc = "confirm"
    /\ \E resp \in BOOLEAN :
          /\ IF flags.yes THEN resp /\ UNCHANGED <<prompts, confirmed>>
             ELSE prompts' = Append(prompts, 1) /\ confirmed' = (confirmed \/ resp)
          /\ IF ~resp THEN Exit(0)
             ELSE IF flags.to # "" THEN pc' = "moveCardToList" /\ UNCHANGED exitCode
             ELSE IF completeFlag # -1 THEN pc' = "setCardDueComplete" /\ UNCHANGED exitCode
             ELSE Exit(0)
    /\ UNCHANGED <<runVars, log, slot, cards, work, idx, decided, sub, store, input, output>>

SS_MoveCardToList ==
    /\ script = "trello-set-state" /\ pc = "moveCardToList"
    /\ \E ok \in BOOLEAN :
          /\ Issue("moveCardToList", TRUE, 1, slot, ok)
          /\ IF ~ok THEN Exit(1)
             ELSE IF completeFlag # -1 THEN pc' = "setCardDueComplete" /\ UNCHANGED exitCode
             ELSE Exit(0)
    /\ UNCHANGED <<runVars, confirmed, prompts, slot, cards, work, idx, decided, sub, store,
                   input, output>>

SS_SetCardDueComplete ==
    /\ script = "trello-set-state" /\ pc = "setCardDueComplete"
    /\ \E ok \in BOOLEAN :
          /\ Issue("setCardDueComplete", TRUE, 1, completeFlag, ok)
          /\ Exit(IF ok THEN 0 ELSE 1)
    /\ UNCHANGED <<runVars, confirmed, prompts, slot, cards, work, idx, decided, sub, store,
                   input, output>>

SS_Next ==
    \/ SS_Main
    \/ SS_GetCard
    \/ SS_ResolveTargetListId
    \/ SS_Confirm
    \/ SS_MoveCardToList
    \/ SS_SetCardDueComplete

SpecSetState == SS_Init /\ [][SS_Next]_vars

----------------------------------------------------------------------------
(* pr-to-trello.js *)

reviewListName_rejected == "Rejected"

reviewListName == "Ready for review & testing (developers)"

(* What the pull request body holds: a card URL or none, testing text or
   screenshots or neither *)
PrBodies == { [url |-> u, content |-> c] : u \in BOOLEAN, c \in BOOLEAN }

PR_Init ==
    /\ InitRun("pr-to-trello")
    /\ board \in Boards
    /\ input = << >>
    /\ env \in { [DefaultEnv EXCEPT !.key = k, !.github = g, !.boardId = b, !.reviewListId = r]
                 : k \in BOOLEAN, g \in BOOLEAN, b \in BOOLEAN, r \in {0, 6} }
    /\ argv \in Optional(<<"--yes">>)
    /\ flags = [DefaultFlags EXCEPT !.yes = Has(argv, "--yes")]
    /\ confirmed = flags.yes
    /\ now = At(0, 10, 7, 0)
    /\ store = << >>

(* processPRToTrello, pr-to-trello.js:295-306 *)
PR_Main ==
    /\ script = "pr-to-trello" /\ pc = "main"
    /\ IF ~env.github \/ ~env.key \/ ~env.token
       THEN Exit(1)
       ELSE pc' = "fetchGitHubPR" /\ UNCHANGED exitCode
    /\ UNCHANGED <<runVars, log, confirmed, prompts, slot, cards, work, idx, decided,
                   sub, store, input, output>>

(* pr-to-trello.js:308-360 *)
PR_FetchGitHubPR ==
    /\ script = "pr-to-trello" /\ pc = "fetchGitHubPR"
    /\ \E ok \in BOOLEAN, body \in PrBodies :
          /\ Issue("fetchGitHubPR", FALSE, 0, 0, ok)
          /\ IF ~ok \/ ~body.url THEN Exit(1)
             ELSE IF ~body.content THEN Exit(0)
             ELSE pc' = "confirm" /\ UNCHANGED exitCode
    /\ UNCHANGED <<runVars, confirmed, prompts, slot, cards, work, idx, decided, sub, store,
                   input, output>>

(* pr-to-trello.js:362-372 *)
PR_Confirm ==
    /\ script = "pr-to-trello" /\ pc = "confirm"
    /\ IF flags.yes
       THEN pc' = "addTrelloComment" /\ UNCHANGED <<exitCode, prompts, confirmed>>
       ELSE \E ok \in BOOLEAN :
               /\ prompts' = Append(prompts, 1)
               /\ confirmed' = (confirmed \/ ok)
               /\ IF ok THEN pc' = "addTrelloComment" /\ UNCHANGED exitCode ELSE Exit(0)
    /\ UNCHANGED <<runVars, log, slot, cards, work, idx, decided, sub, store, input, output>>

(* pr-to-trello.js:374-379 *)
PR_AddTrelloComment ==
    /\ script = "pr-to-trello" /\ pc = "addTrelloComment"
    /\ \E ok \in BOOLEAN :
          /\ Issue("addTrelloComment", TRUE, 1, 0, ok)
          /\ IF ok THEN pc' = "askMove" /\ UNCHANGED exitCode ELSE Exit(1)
    /\ UNCHANGED <<runVars, confirmed, prompts, slot, cards, work, idx, decided, sub, store,
                   input, output>>

(* pr-to-trello.js:381-382 and 409-411 *)
PR_AskMove ==
    /\ script = "pr-to-trello" /\ pc = "askMove"
    /\ \E moveToReview \in BOOLEAN :
          /\ prompts' = Append(prompts, 2)
          /\ decided' = Append(decided, moveToReview)
          /\ confirmed' = (confirmed \/ moveToReview)
          /\ IF moveToReview THEN pc' = "resolveListId" /\ UNCHANGED exitCode ELSE Exit(0)
    /\ UNCHANGED <<runVars, log, slot, cards, work, idx, sub, store, input, output>>

(* resolveListId('review'), pr-to-trello.js:384-399; a throw is caught at 406 *)
PR_ResolveListId ==
    /\ script = "pr-to-trello" /\ pc = "resolveListId"
    /\ IF env.reviewListId # 0
       THEN slot' = env.reviewListId /\ pc' = "moveCardToList" /\ UNCHANGED <<exitCode, log>>
       ELSE IF ~env.boardId
       THEN Exit(0) /\ UNCHANGED <<slot, log>>
       ELSE \E ok \in BOOLEAN :
               /\ Issue("getBoardLists", FALSE, 0, 0, ok)
               /\ IF ok /\ getListByName(reviewListName) # NoList
                  THEN /\ slot' = getListByName(reviewListName).id
                       /\ pc' = "moveCardToList"
                       /\ UNCHANGED exitCode
                  ELSE Exit(0) /\ UNCHANGED slot
    /\ UNCHANGED <<runVars, confirmed, prompts, cards, work, idx, decided, sub, store,
                   input, output>>

PR_MoveCardToList ==
    /\ script = "pr-to-trello" /\ pc = "moveCardToList"
    /\ \E ok \in BOOLEAN :
          /\ Issue("moveCardToList", TRUE, 1, slot, ok)
          /\ IF ok THEN pc' = "setCardDueComplete" /\ UNCHANGED exitCode ELSE Exit(0)
    /\ UNCHANGED <<runVars, confirmed, prompts, slot, cards, work, idx, decided, sub, store,
                   input, output>>

PR_SetCardDueComplete ==
    /\ script = "pr-to-trello" /\ pc = "setCardDueComplete"
    /\ \E ok \in BOOLEAN :
          /\ Issue("setCardDueComplete", TRUE, 1, 1, ok)
          /\ Exit(0)
    /\ UNCHANGED <<runVars, confirmed, prompts, slot, cards, work, idx, decided, sub, store,
                   input, output>>

PR_Next ==
    \/ PR_Main
    \/ PR_FetchGitHubPR
    \/ PR_Confirm
    \/ PR_AddTrelloComment
    \/ PR_AskMove
    \/ PR_ResolveListId
    \/ PR_MoveCardToList
    \/ PR_SetCardDueComplete

SpecPrToTrello == PR_Init /\ [][PR_Next]_vars


(* Positions in the request log of the requests of one operation *)
RequestsOf(op) == { i \in DOMAIN log : log[i].op = op }

MutatingRequests == { i \in DOMAIN log : log[i].mut }

(* C8: pr-to-trello posts at most one comment per run; once the comment is
   posted, a "no" to the move prompt leaves the comment as the only mutating
   request, and a "yes" moves the card to the review list only (the
   configured REVIEW_LIST_ID or the list found by the review name, never a
   list called Rejected), and dueComplete=true is sent only directly after a
   move that succeeded. *)
C8_CommentThenMove ==
    script = "pr-to-trello" =>
        /\ Cardinality(RequestsOf("addTrelloComment")) <= 1
        /\ decided = <<FALSE>> => MutatingRequests = RequestsOf("addTrelloComment")
        /\ \A i \in RequestsOf("moveCardToList") :
              /\ decided = <<TRUE>>
              /\ \E j \in 1..(i - 1) : log[j].op = "addTrelloComment" /\ log[j].ok
              /\ log[i].arg = IF env.reviewListId # 0 THEN env.reviewListId
                              ELSE getListByName("Ready for review & testing (developers)").id
              /\ \A k \in DOMAIN board : board[k].name = "Rejected" => log[i].arg # board[k].id
        /\ \A i \in RequestsOf("setCardDueComplete") :
              /\ log[i].arg = 1
              /\ i > 1 /\ log[i - 1].op = "moveCardToList" /\ log[i - 1].ok
        /\ MutatingRequests \subseteq RequestsOf("addTrelloComment")
                                      \cup RequestsOf("moveCardToList")
                                      \cup RequestsOf("setCardDueComplete")

C8_Witness ==
    /\ script = "pr-to-trello" /\ pc = "exit"
    /\ env.reviewListId = 0
    /\ decided = <<TRUE>>
    /\ RequestsOf("setCardDueComplete") # {}

----------------------------------------------------------------------------
(* Rejected pull-request sync script (create-card.js:183-406) *)

MaxPrs == 2

(* A pull request linked from a rejected card and authored by the user:
   whether it already carries the label, and the rejection comment *)
PullRequests == { [hasLabel |-> l, hasComment |-> c] : l \in BOOLEAN, c \in BOOLEAN }

PrLists == UNION { [1..n -> PullRequests] : n \in 0..MaxPrs }

includesRejected(name) == toLowerCase(name) = "rejected"

rejectedLists == SelectSeq(getBoardLists(FALSE), LAMBDA l : includesRejected(l.name))

RS_Init ==
    /\ InitRun("sync-rejected")
    /\ board \in Boards
    /\ input \in PrLists
    /\ env \in { [DefaultEnv EXCEPT !.key = k, !.github = g, !.boardId = b]
                 : k \in BOOLEAN, g \in BOOLEAN, b \in BOOLEAN }
    /\ argv = << >>
    /\ flags = DefaultFlags
    /\ confirmed = FALSE
    /\ now = At(0, 10, 7, 0)
    /\ store = << >>

(* main, create-card.js:335-339 *)
RS_Main ==
    /\ script = "sync-rejected" /\ pc = "main"
    /\ IF ~env.github THEN Exit(1) ELSE pc' = "getMe" /\ UNCHANGED exitCode
    /\ UNCHANGED <<runVars, log, confirmed, prompts, slot, cards, work, idx, decided,
                   sub, store, input, output>>

(* getMe, create-card.js:342; ensureConfig throws before the request *)
RS_GetMe ==
    /\ script = "sync-rejected" /\ pc = "getMe"
    /\ IF ~ensureConfig
       THEN Exit(1) /\ UNCHANGED log
       ELSE \E ok \in BOOLEAN :
               /\ Issue("getMe", FALSE, 0, 0, ok)
               /\ IF ok THEN pc' = "gatherRejectedCards" /\ UNCHANGED exitCode ELSE Exit(1)
    /\ UNCHANGED <<runVars, confirmed, prompts, slot, cards, work, idx, decided, sub, store,
                   input, output>>

(* gatherRejectedCards, create-card.js:217-225 *)
RS_GatherRejectedCards ==
    /\ script = "sync-rejected" /\ pc = "gatherRejectedCards"
    /\ IF ~env.boardId
       THEN Exit(1) /\ UNCHANGED log
       ELSE \E ok \in BOOLEAN :
               /\ Issue("getBoardLists", FALSE, 0, 0, ok)
               /\ IF ~ok THEN Exit(1)
                  ELSE IF Len(rejectedLists) = 0 THEN Exit(0)
                  ELSE pc' = "getCardsInLists" /\ UNCHANGED exitCode
    /\ UNCHANGED <<runVars, confirmed, prompts, slot, cards, work, idx, decided, sub, store,
                   input, output>>

(* getCardsInLists and the member filter, create-card.js:226-230, 346-350 *)
RS_GetCardsInLists ==
    /\ script = "sync-rejected" /\ pc = "getCardsInLists"
    /\ \E ok \in BOOLEAN, n \in 0..MaxPrs :
          /\ Issue("getListCards", FALSE, 0, rejectedLists[1].id, ok)
          /\ IF ~ok THEN Exit(1) /\ UNCHANGED cards
             ELSE /\ cards' = [i \in 1..n |-> Card(i, {myId}, NoDue)]
                  /\ IF n = 0 THEN Exit(0) ELSE pc' = "getReviewerLogin" /\ UNCHANGED exitCode
    /\ UNCHANGED <<runVars, confirmed, prompts, slot, work, idx, decided, sub, store,
                   input, output>>

(* getReviewerLogin, create-card.js:212-215, 361 *)
RS_GetReviewerLogin ==
    /\ script = "sync-rejected" /\ pc = "getReviewerLogin"
    /\ \E ok \in BOOLEAN :
          /\ Issue("getReviewerLogin", FALSE, 0, 0, ok)
          /\ IF ok THEN pc' = "mapCardsToPrs" /\ idx' = 1 /\ UNCHANGED exitCode
             ELSE Exit(1) /\ UNCHANGED idx
    /\ UNCHANGED <<runVars, confirmed, prompts, slot, cards, work, decided, sub, store,
                   input, output>>

(* mapCardsToPrs, create-card.js:233-277 and 364-368: the comments of each
   card are read in turn, then each linked pull request is fetched and the
   ones authored by the user are kept *)
RS_MapCardsToPrs ==
    /\ script = "sync-rejected" /\ pc = "mapCardsToPrs"
    /\ \E ok \in BOOLEAN :
          /\ Issue("getCardComments", FALSE, cards[idx].id, 0, ok)
          /\ IF ~ok THEN Exit(1) /\ UNCHANGED <<idx, work>>
             ELSE IF idx < Len(cards)
             THEN idx' = idx + 1 /\ UNCHANGED <<pc, exitCode, work>>
             ELSE /\ work' = input
                  /\ idx' = 1
                  /\ IF Len(input) = 0 THEN Exit(0)
                     ELSE pc' = "ensureRejectedLabel" /\ UNCHANGED exitCode
    /\ UNCHANGED <<runVars, confirmed, prompts, slot, cards, decided, sub, store,
                   input, output>>

(* ensureRejectedLabel, create-card.js:279-300, 386 *)
RS_EnsureRejectedLabel ==
    /\ script = "sync-rejected" /\ pc = "ensureRejectedLabel"
    /\ IF work[idx].hasLabel
       THEN pc' = "leaveRejectedComment" /\ UNCHANGED <<exitCode, log>>
       ELSE \E ok \in BOOLEAN :
               /\ Issue("addLabel", TRUE, idx, 0, ok)
               /\ IF ok THEN pc' = "leaveRejectedComment" /\ UNCHANGED exitCode ELSE Exit(1)
    /\ UNCHANGED <<runVars, confirmed, prompts, slot, cards, work, idx, decided, sub, store,
                   input, output>>

RS_NextPr ==
    IF idx < Len(work)
    THEN idx' = idx + 1 /\ pc' = "ensureRejectedLabel" /\ UNCHANGED exitCode
    ELSE idx' = idx + 1 /\ Exit(0)

(* leaveRejectedComment, create-card.js:302-318: look for the comment *)
RS_LeaveRejectedComment ==
    /\ script = "sync-rejected" /\ pc = "leaveRejectedComment"
    /\ \E ok \in BOOLEAN :
          /\ Issue("getPrComments", FALSE, idx, 0, ok)
          /\ IF ~ok THEN Exit(1) /\ UNCHANGED idx
             ELSE IF work[idx].hasComment THEN RS_NextPr
             ELSE pc' = "postComment" /\ UNCHANGED <<exitCode, idx>>
    /\ UNCHANGED <<runVars, confirmed, prompts, slot, cards, work, decided, sub, store,
                   input, output>>

(* leaveRejectedComment, create-card.js:319-332: post the comment *)
RS_PostComment ==
    /\ script = "sync-rejected" /\ pc = "postComment"
    /\ \E ok \in BOOLEAN :
          /\ Issue("postPrComment", TRUE, idx, 0, ok)
          /\ IF ok THEN RS_NextPr ELSE Exit(1) /\ UNCHANGED idx
    /\ UNCHANGED <<runVars, confirmed, prompts, slot, cards, work, decided, sub, store,
                   input, output>>

RS_Next ==
    \/ RS_Main
    \/ RS_GetMe
    \/ RS_GatherRejectedCards
    \/ RS_GetCardsInLists
    \/ RS_GetReviewerLogin
    \/ RS_MapCardsToPrs
    \/ RS_EnsureRejectedLabel
    \/ RS_LeaveRejectedComment
    \/ RS_PostComment

SpecSyncRejected == RS_Init /\ [][RS_Next]_vars

----------------------------------------------------------------------------
(* trello-enhance.js.  Text is a sequence of character codes. *)

MaxEnhCards == 1

minDescChars == 60

(* "AI Description (proposed)" *)
marker ==
    <<65, 73, 32, 68, 101, 115, 99, 114, 105, 112, 116, 105, 111, 110, 32,
      40, 112, 114, 111, 112, 111, 115, 101, 100, 41>>

delimStart == <<10, 10, 45, 45, 45, 10>> \o marker \o <<10, 10>>

delimEnd == <<10>>

isSpace(c) == c \in {9, 10, 13, 32}

RECURSIVE trimStart(_)
trimStart(s) == IF s # << >> /\ isSpace(Head(s)) THEN trimStart(Tail(s)) ELSE s

RECURSIVE trimEnd(_)
trimEnd(s) ==
    IF s # << >> /\ isSpace(s[Len(s)]) THEN trimEnd(SubSeq(s, 1, Len(s) - 1)) ELSE s

trim(s) == trimEnd(trimStart(s))

includes(s, part) ==
    \E i \in 0..(Len(s) - Len(part)) : SubSeq(s, i + 1, i + Len(part)) = part

(* Number.prototype.toString(16) of hi * 2^16 + lo, as hex digits *)
RECURSIVE stripZeros(_)
stripZeros(d) == IF Len(d) > 1 /\ Head(d) = 0 THEN stripZeros(Tail(d)) ELSE d

hex4(n) == << n \div 4096, (n \div 256) % 16, (n \div 16) % 16, n % 16 >>

toString16(hi, lo) == stripZeros(hex4(hi) \o hex4(lo))

(* sha1, trello-enhance.js:154-159: h = (h * 31 + code) >>> 0 over 32 bits,
   kept as two 16-bit halves; the test of l and h has TLC evaluate each
   round before the next *)
RECURSIVE sha1From(_, _, _, _)
sha1From(text, i, hi, lo) ==
    IF i > Len(text) THEN toString16(hi, lo)
    ELSE LET l == lo * 31 + text[i]
             h == hi * 31 + (l \div 65536)
         IN IF l < 0 \/ h < 0 THEN << >> ELSE sha1From(text, i + 1, h % 65536, l % 65536)

sha1(text) == sha1From(text, 1, 0, 0)

mergeDesc_noMarkerTest(mode, existing, suggestion) ==
    IF mode = "prepend" THEN trim(suggestion \o delimStart \o existing)
    ELSE IF mode = "append" THEN trim(existing \o delimStart \o suggestion \o delimEnd)
    ELSE suggestion

(* merge of the suggestion into the description, trello-enhance.js:462-480 *)
mergeDesc(mode, existing, suggestion) ==
    IF mode = "prepend"
    THEN IF ~includes(existing, marker) THEN trim(suggestion \o delimStart \o existing)
         ELSE existing
    ELSE IF mode = "append"
    THEN IF ~includes(existing, marker) THEN trim(existing \o delimStart \o suggestion \o delimEnd)
         ELSE existing
    ELSE suggestion

(* Descriptions a card may have: two short ones with the same hash, one
   holding the marker, one of minDescChars characters *)
Descs == { <<97, 128>>, <<98, 97>>, <<32>> \o marker, [i \in 1..minDescChars |-> 97] }

Suggestion == <<115, 32>>

EnhCard(id, desc) == [id |-> id, desc |-> desc]

Candidates == UNION { { [i \in 1..n |-> EnhCard(i, d[i])] : d \in [1..n -> Descs] }
                      : n \in 0..MaxEnhCards }

NoEntry == [status |-> "none", descHash |-> << >>]

CacheEntries ==
    { NoEntry, [status |-> "applied", descHash |-> sha1(<<97, 128>>)],
      [status |-> "skipped", descHash |-> sha1(<<32>> \o marker)],
      [status |-> "dry-run", descHash |-> sha1(<<97, 128>>)] }

EmptyCache == [i \in 1..MaxEnhCards |-> NoEntry]

(* The cache file: JSON that parses to a map of entries, or text that does not *)
CacheFile(parses, data) == [parses |-> parses, data |-> data]

CacheFiles ==
    { CacheFile(TRUE, c) : c \in [1..MaxEnhCards -> CacheEntries] }
      \cup { CacheFile(FALSE, [i \in 1..MaxEnhCards |-> e]) :
                 e \in { NoEntry, [status |-> "applied", descHash |-> sha1(<<98, 97>>)] } }

loadCache_noCatch(file) == file.data

(* loadCache, trello-enhance.js:140-147 *)
loadCache(file) == IF file.parses THEN file.data ELSE EmptyCache

(* parseArgs, trello-enhance.js:67-124: --merge takes the next token *)
RECURSIVE EN_parseFrom(_, _, _)
EN_parseFrom(a, i, out) ==
    IF i > Len(a) THEN out
    ELSE IF a[i] = "--merge" /\ i + 1 <= Len(a)
    THEN EN_parseFrom(a, i + 2,
             IF a[i + 1] \in {"prepend", "append", "replace"}
             THEN [out EXCEPT !.merge = a[i + 1]] ELSE out)
    ELSE IF a[i] = "--apply" THEN EN_parseFrom(a, i + 1, [out EXCEPT !.apply = TRUE])
    ELSE IF a[i] = "--no-title" THEN EN_parseFrom(a, i + 1, [out EXCEPT !.title = FALSE])
    ELSE IF a[i] = "--force" THEN EN_parseFrom(a, i + 1, [out EXCEPT !.force = TRUE])
    ELSE IF a[i] = "--list-only" THEN EN_parseFrom(a, i + 1, [out EXCEPT !.listOnly = TRUE])
    ELSE EN_parseFrom(a, i + 1, out)

EN_parseArgs_applyAlways(a) ==
    EN_parseFrom(a, 1, [DefaultFlags EXCEPT !.title = TRUE, !.apply = TRUE])

EN_parseArgs(a) == EN_parseFrom(a, 1, [DefaultFlags EXCEPT !.title = TRUE])

EN_Argvs ==
    Optional(<<"--apply", "--force", "--no-title">>)
      \cup { <<"--list-only">>, <<"--merge", "replace", "--apply">>,
             <<"--merge", "append", "--apply">>, <<"--merge", "--apply">> }

EN_Init ==
    /\ InitRun("trello-enhance")
    /\ board \in { b \in Boards : Len(b) = 2 }
    /\ input = << >>
    /\ env \in { [DefaultEnv EXCEPT !.key = k, !.boardId = b, !.openrouter = o]
                 : k \in BOOLEAN, b \in BOOLEAN, o \in BOOLEAN }
    /\ argv \in EN_Argvs
    /\ flags = EN_parseArgs(argv)
    /\ confirmed = FALSE
    /\ now = At(0, 10, 7, 0)
    /\ store \in CacheFiles


(* main, trello-enhance.js:295-303 *)
EN_Main ==
    /\ script = "trello-enhance" /\ pc = "main"
    /\ IF ~ensureConfig \/ ~env.boardId \/ ~env.openrouter
       THEN Exit(2)
       ELSE pc' = "getMe" /\ UNCHANGED exitCode
    /\ UNCHANGED <<runVars, log, confirmed, prompts, slot, cards, work, idx, decided,
                   sub, store, input, output>>

(* trello-enhance.js:305; a rejection reaches main().catch at 524-527 *)
EN_GetMe ==
    /\ script = "trello-enhance" /\ pc = "getMe"
    /\ \E ok \in BOOLEAN :
          /\ Issue("getMe", FALSE, 0, 0, ok)
          /\ IF ok THEN pc' = "getBoardCards" /\ UNCHANGED exitCode ELSE Exit(1)
    /\ UNCHANGED <<runVars, confirmed, prompts, slot, cards, work, idx, decided, sub, store,
                   input, output>>

(* Promise.all of getBoardCards and getBoardLists, trello-enhance.js:306-309 *)
EN_GetBoardCards ==
    /\ script = "trello-enhance" /\ pc = "getBoardCards"
    /\ \E ok1 \in BOOLEAN, ok2 \in BOOLEAN :
          /\ log' = log \o << Request("getBoardCards", FALSE, 0, 0, ok1),
                              Request("getBoardLists", FALSE, 0, 0, ok2) >>
          /\ IF ok1 /\ ok2 THEN pc' = "fetchBoardCreateActions" /\ UNCHANGED exitCode
             ELSE Exit(1)
    /\ UNCHANGED <<runVars, confirmed, prompts, slot, cards, work, idx, decided, sub, store,
                   input, output>>

(* trello-enhance.js:315-369: the create actions, the candidates, the cache
   load and the --list-only return *)
EN_FetchBoardCreateActions ==
    /\ script = "trello-enhance" /\ pc = "fetchBoardCreateActions"
    /\ \E ok \in BOOLEAN, candidates \in Candidates :
          /\ Issue("fetchBoardCreateActions", FALSE, 0, 0, ok)
          /\ IF ~ok THEN Exit(1) /\ UNCHANGED <<cards, work, idx, output>>
             ELSE /\ cards' = candidates
                  /\ work' = candidates
                  /\ output' = loadCache(store)
                  /\ IF flags.listOnly THEN Exit(0) /\ UNCHANGED idx
                     ELSE /\ idx' = 1
                          /\ pc' = IF Len(candidates) = 0 THEN "saveCache" ELSE "loop"
                          /\ UNCHANGED exitCode
    /\ UNCHANGED <<runVars, confirmed, prompts, slot, decided, sub, store, input>>

(* continue: the next candidate, or saveCache after the last *)
EN_Continue ==
    /\ idx' = idx + 1
    /\ pc' = IF idx < Len(work) THEN "loop" ELSE "saveCache"
    /\ UNCHANGED exitCode

cacheHit_anyStatus(entry, descHash) ==
    /\ ~flags.force
    /\ entry # NoEntry
    /\ entry.descHash = descHash

cacheHit(entry, descHash) ==
    /\ ~flags.force
    /\ entry # NoEntry
    /\ entry.descHash = descHash
    /\ entry.status \in {"applied", "skipped"}

Record(id, status, descHash) ==
    output' = [output EXCEPT ![id] = [status |-> status, descHash |-> descHash]]

(* Loop head, trello-enhance.js:371-407: cache skip, sufficient description,
   then the generate prompt *)
EN_Loop ==
    /\ script = "trello-enhance" /\ pc = "loop"
    /\ LET card == work[idx]
           descHash == sha1(card.desc)
       IN IF cacheHit(output[card.id], descHash)
          THEN EN_Continue /\ UNCHANGED <<output, prompts>>
          ELSE IF Len(card.desc) >= minDescChars
          THEN Record(card.id, "sufficient", descHash) /\ EN_Continue /\ UNCHANGED prompts
          ELSE \E proceed \in BOOLEAN :
                  /\ prompts' = Append(prompts, card.id)
                  /\ IF ~proceed
                     THEN Record(card.id, "skipped", descHash) /\ EN_Continue
                     ELSE /\ pc' = "generateDescription"
                          /\ UNCHANGED <<exitCode, idx, output>>
    /\ UNCHANGED <<runVars, log, confirmed, slot, cards, work, decided, sub, store, input>>

(* trello-enhance.js:409-431 *)
EN_GenerateDescription ==
    /\ script = "trello-enhance" /\ pc = "generateDescription"
    /\ \E ok \in BOOLEAN :
          /\ Issue("generateDescription", FALSE, work[idx].id, 0, ok)
          /\ IF ~ok
             THEN Record(work[idx].id, "error", sha1(work[idx].desc)) /\ EN_Continue
             ELSE /\ pc' = IF flags.title THEN "askTitle" ELSE "askApply"
                  /\ UNCHANGED <<exitCode, idx, output>>
    /\ sub' = 0
    /\ UNCHANGED <<runVars, confirmed, prompts, slot, cards, work, decided, store, input>>

(* trello-enhance.js:433-436 *)
EN_AskTitle ==
    /\ script = "trello-enhance" /\ pc = "askTitle"
    /\ \E askTitle \in BOOLEAN :
          /\ prompts' = Append(prompts, work[idx].id)
          /\ pc' = IF askTitle THEN "generateTitle" ELSE "askApply"
    /\ UNCHANGED <<runVars, exitCode, log, confirmed, slot, cards, work, idx, decided, sub,
                   store, input, output>>

(* trello-enhance.js:437-449: sub = 1 when a new title was suggested *)
EN_GenerateTitle ==
    /\ script = "trello-enhance" /\ pc = "generateTitle"
    /\ \E ok \in BOOLEAN :
          /\ Issue("generateTitle", FALSE, work[idx].id, 0, ok)
          /\ sub' = IF ok THEN 1 ELSE 0
    /\ pc' = "askApply"
    /\ UNCHANGED <<runVars, exitCode, confirmed, prompts, slot, cards, work, idx, decided,
                   store, input, output>>

(* trello-enhance.js:452-488 and 512-513 *)
EN_AskApply ==
    /\ script = "trello-enhance" /\ pc = "askApply"
    /\ \E apply \in BOOLEAN :
          /\ prompts' = Append(prompts, work[idx].id)
          /\ decided' = Append(decided, apply)
          /\ confirmed' = (confirmed \/ apply)
          /\ IF ~apply
             THEN Record(work[idx].id, "skipped", sha1(work[idx].desc)) /\ EN_Continue
             ELSE IF ~flags.apply
             THEN Record(work[idx].id, "dry-run", sha1(work[idx].desc)) /\ EN_Continue
             ELSE pc' = "updateCard" /\ UNCHANGED <<exitCode, idx, output>>
    /\ UNCHANGED <<runVars, log, slot, cards, work, sub, store, input>>

(* updateCardViaClient, trello-enhance.js:489-513 *)
EN_UpdateCard ==
    /\ script = "trello-enhance" /\ pc = "updateCard"
    /\ LET card == work[idx]
           finalDesc == mergeDesc(flags.merge, card.desc, Suggestion)
       IN \E ok \in BOOLEAN :
             /\ Issue("updateCard", TRUE, card.id, finalDesc, ok)
             /\ IF ok THEN Record(card.id, "applied", sha1(finalDesc))
                ELSE Record(card.id, "error", sha1(card.desc))
    /\ EN_Continue
    /\ UNCHANGED <<runVars, confirmed, prompts, slot, cards, work, decided, sub, store, input>>

(* saveCache, trello-enhance.js:516 *)
EN_SaveCache ==
    /\ script = "trello-enhance" /\ pc = "saveCache"
    /\ store' = CacheFile(TRUE, output)
    /\ Exit(0)
    /\ UNCHANGED <<runVars, log, confirmed, prompts, slot, cards, work, idx, decided, sub,
                   input, output>>

EN_Next ==
    \/ EN_Main
    \/ EN_GetMe
    \/ EN_GetBoardCards
    \/ EN_FetchBoardCreateActions
    \/ EN_Loop
    \/ EN_GenerateDescription
    \/ EN_AskTitle
    \/ EN_GenerateTitle
    \/ EN_AskApply
    \/ EN_UpdateCard
    \/ EN_SaveCache

SpecEnhance == EN_Init /\ [][EN_Next]_vars


(* The candidates of trello-enhance handled so far whose cache entry this run
   wrote (the file is rewritten only by saveCache, at the end) *)
recordedCards ==
    { i \in 1..Len(work) : i < idx /\ output[work[i].id] # loadCache(store)[work[i].id] }

(* C6 as stated: without --apply trello-enhance issues no card update, and
   every card it records in the cache gets status dry-run or skipped. *)
C6_OnlyDryRunOrSkipped ==
    (script = "trello-enhance" /\ ~Has(argv, "--apply") /\ pc \in {"loop", "saveCache"}) =>
        /\ RequestsOf("updateCard") = {}
        /\ \A i \in recordedCards : output[work[i].id].status \in {"dry-run", "skipped"}

(* C6 amended: without --apply trello-enhance issues no card update (no
   mutating request at all), whatever is answered; a card it records in the
   cache gets status dry-run or skipped, or sufficient when its description
   has at least minDescChars characters, or error when the description
   generation for it failed. *)
C6_NoUpdateWithoutApply ==
    (script = "trello-enhance" /\ ~Has(argv, "--apply")) =>
        /\ MutatingRequests = {}
        /\ pc \in {"loop", "saveCache"} =>
              \A i \in recordedCards :
                 LET status == output[work[i].id].status
                 IN /\ status \in {"dry-run", "skipped", "sufficient", "error"}
                    /\ status = "sufficient" => Len(work[i].desc) >= minDescChars
                    /\ status = "error" =>
                          \E j \in RequestsOf("generateDescription") :
                             log[j].card = work[i].id /\ ~log[j].ok
                    /\ status = "dry-run" =>
                          \E j \in RequestsOf("generateDescription") :
                             log[j].card = work[i].id /\ log[j].ok

C6_Witness ==
    /\ script = "trello-enhance" /\ pc = "saveCache"
    /\ ~Has(argv, "--apply")
    /\ Len(work) > 0
    /\ decided = <<TRUE>>
    /\ output[work[1].id].status = "dry-run"

(* C7: in trello-enhance, when the loop reaches a card whose cache entry has
   status applied or skipped and the hash of the card's description, and
   --force was not passed, the step prompts for nothing, sends nothing (no
   language-model call, no update), leaves the cache alone and goes on to
   the next card; otherwise (--force, another hash, another status or no
   entry) the card is reconsidered: it is recorded as sufficient or the
   generate prompt is asked. *)
C7_CacheSkip ==
    [][(script = "trello-enhance" /\ pc = "loop") =>
          LET card == work[idx]
              entry == output[card.id]
              handled == /\ ~Has(argv, "--force")
                         /\ entry.status \in {"applied", "skipped"}
                         /\ entry.descHash = sha1(card.desc)
          IN /\ handled => /\ prompts' = prompts
                           /\ log' = log
                           /\ output' = output
                           /\ idx' = idx + 1
             /\ ~handled => \/ output'[card.id].status = "sufficient"
                            \/ prompts' = Append(prompts, card.id)]_vars

(* A card with description "ba" skipped on the entry recorded for "a\x80" *)
C7_Witness ==
    /\ script = "trello-enhance" /\ idx = 2
    /\ ~Has(argv, "--force")
    /\ work[1].desc = <<98, 97>>
    /\ output[work[1].id].status = "applied"
    /\ output[work[1].id].descHash = sha1(work[1].desc)
    /\ prompts = << >>
    /\ RequestsOf("generateDescription") = {}

----------------------------------------------------------------------------
(* daily-report-to-mattermost.js:104-370 *)

MaxTickets == 2

moveIncrementMinutes == 120

hourOf(t) == (t % TicksPerDay) \div TicksPerHour

(* getNextDueDate, daily-report-to-mattermost.js:275-286 *)
getNextDueDate_alwaysToday(t) == setHourMinuteZero(t, 9, 0)

getNextDueDate(t) ==
    IF hourOf(t) < 12 THEN setHourMinuteZero(t, 9, 0)
    ELSE setHourMinuteZero(addDays(t, 1), 9, 0)

(* The report file: whether it can be read, and what parseMarkdownSections
   finds in it; the screenshot file may be absent *)
Reports ==
    { [readable |-> TRUE, summary |-> s, tickets |-> n, screenshot |-> p]
        : s \in BOOLEAN, n \in 0..MaxTickets, p \in {"none", "missing", "found"} }
      \cup { [readable |-> FALSE, summary |-> FALSE, tickets |-> 0, screenshot |-> "none"] }

MM_CardLists == UNION { { [i \in 1..n |-> Card(i, m[i], NoDue)] : m \in [1..n -> {{myId}, {2}}] }
                        : n \in 0..MaxTickets }

MM_Init ==
    /\ InitRun("daily-report")
    /\ board \in Boards
    /\ input \in Reports
    /\ env \in { [DefaultEnv EXCEPT !.mattermost = m, !.key = k, !.boardId = b, !.doingListId = d]
                 : m \in BOOLEAN, k \in BOOLEAN, b \in BOOLEAN, d \in {0, 1} }
    /\ argv = << >>
    /\ flags = DefaultFlags
    /\ confirmed = FALSE
    /\ now \in { At(0, 9, 0, 0), At(0, 11, 59, 1), At(0, 12, 0, 0) }
    /\ store = << >>

(* The step after the send prompt, the upload, the summary or a ticket *)
MM_After(stage) ==
    IF stage < 1 /\ input.screenshot = "found" THEN "uploadFile"
    ELSE IF stage < 2 /\ input.summary THEN "postSummary"
    ELSE IF input.tickets > 0 THEN "postTicket"
    ELSE "getMe"

(* daily-report-to-mattermost.js:123-135 and 179-218; an unreadable report
   rejects the async main, which ends the process with code 1 *)
MM_Main ==
    /\ script = "daily-report" /\ pc = "main"
    /\ IF ~env.mattermost \/ ~env.key \/ ~env.token THEN Exit(1)
       ELSE IF ~input.readable THEN Exit(1)
       ELSE IF input.tickets = 0 /\ ~input.summary /\ input.screenshot = "none" THEN Exit(0)
       ELSE pc' = "askSend" /\ UNCHANGED exitCode
    /\ UNCHANGED <<runVars, log, confirmed, prompts, slot, cards, work, idx, decided,
                   sub, store, input, output>>

(* daily-report-to-mattermost.js:220-223 and 261-264 *)
MM_AskSend ==
    /\ script = "daily-report" /\ pc = "askSend"
    /\ \E answer \in BOOLEAN :
          /\ prompts' = Append(prompts, 0)
          /\ confirmed' = (confirmed \/ answer)
          /\ decided' = Append(decided, answer)
          /\ IF answer THEN pc' = MM_After(0) /\ sub' = 1 /\ UNCHANGED exitCode
             ELSE Exit(0) /\ UNCHANGED sub
    /\ UNCHANGED <<runVars, log, slot, cards, work, idx, store, input, output>>

(* uploadFile, daily-report-to-mattermost.js:229-235; a throw is caught at 258 *)
MM_UploadFile ==
    /\ script = "daily-report" /\ pc = "uploadFile"
    /\ \E ok \in BOOLEAN :
          /\ Issue("uploadFile", TRUE, 0, 0, ok)
          /\ IF ok THEN pc' = MM_After(1) /\ UNCHANGED exitCode ELSE Exit(0)
    /\ UNCHANGED <<runVars, confirmed, prompts, slot, cards, work, idx, decided, sub, store,
                   input, output>>

(* postToChannel of the summary, daily-report-to-mattermost.js:237-244;
   postToChannel ends the process with code 2 when the post fails *)
MM_PostSummary ==
    /\ script = "daily-report" /\ pc = "postSummary"
    /\ \E ok \in BOOLEAN :
          /\ Issue("postToChannel", TRUE, 0, 0, ok)
          /\ IF ok THEN pc' = MM_After(2) /\ UNCHANGED exitCode ELSE Exit(2)
    /\ UNCHANGED <<runVars, confirmed, prompts, slot, cards, work, idx, decided, sub, store,
                   input, output>>

MM_PostTicket_noExit ==
    /\ script = "daily-report" /\ pc = "postTicket"
    /\ \E ok \in BOOLEAN :
          /\ Issue("postToChannel", TRUE, 0, sub, ok)
          /\ sub' = sub + 1
          /\ pc' = IF sub < input.tickets THEN "postTicket" ELSE "getMe"
          /\ UNCHANGED exitCode
    /\ UNCHANGED <<runVars, confirmed, prompts, slot, cards, work, idx, decided, store,
                   input, output>>

(* postToChannel of one ticket, daily-report-to-mattermost.js:246-251 *)
MM_PostTicket ==
    /\ script = "daily-report" /\ pc = "postTicket"
    /\ \E ok \in BOOLEAN :
          /\ Issue("postToChannel", TRUE, 0, sub, ok)
          /\ IF ~ok THEN Exit(2) /\ UNCHANGED sub
             ELSE /\ sub' = sub + 1
                  /\ pc' = IF sub < input.tickets THEN "postTicket" ELSE "getMe"
                  /\ UNCHANGED exitCode
    /\ UNCHANGED <<runVars, confirmed, prompts, slot, cards, work, idx, decided, store,
                   input, output>>

(* moveDoingTicketsToNextDueDate, daily-report-to-mattermost.js:288-300; its
   errors are caught at 364 and the run ends normally *)
MM_GetMe ==
    /\ script = "daily-report" /\ pc = "getMe"
    /\ \E ok \in BOOLEAN :
          /\ Issue("getMe", FALSE, 0, 0, ok)
          /\ IF ok THEN pc' = "getDoingListId" /\ UNCHANGED exitCode ELSE Exit(0)
    /\ UNCHANGED <<runVars, confirmed, prompts, slot, cards, work, idx, decided, sub, store,
                   input, output>>

(* getDoingListId, daily-report-to-mattermost.js:267-273 *)
MM_GetDoingListId ==
    /\ script = "daily-report" /\ pc = "getDoingListId"
    /\ IF env.doingListId # 0
       THEN pc' = "getListCards" /\ UNCHANGED <<exitCode, log>>
       ELSE IF ~env.boardId
       THEN Exit(0) /\ UNCHANGED log
       ELSE \E ok \in BOOLEAN :
               /\ Issue("getBoardLists", FALSE, 0, 0, ok)
               /\ IF ok /\ getListByName("Doing") # NoList
                  THEN pc' = "getListCards" /\ UNCHANGED exitCode
                  ELSE Exit(0)
    /\ UNCHANGED <<runVars, confirmed, prompts, slot, cards, work, idx, decided, sub, store,
                   input, output>>

(* daily-report-to-mattermost.js:305-326: the cards, the filter, the preview *)
MM_GetListCards ==
    /\ script = "daily-report" /\ pc = "getListCards"
    /\ \E ok \in BOOLEAN, cs \in MM_CardLists :
          /\ Issue("getListCards", FALSE, 0, 0, ok)
          /\ IF ~ok THEN Exit(0) /\ UNCHANGED <<cards, work, output>>
             ELSE LET myCards == SelectSeq(cs, LAMBDA c : myId \in c.idMembers)
                  IN /\ cards' = cs
                     /\ work' = myCards
                     /\ output' = [i \in 1..Len(myCards) |->
                                      addMinutes(getNextDueDate(now), (i - 1) * moveIncrementMinutes)]
                     /\ IF Len(myCards) = 0 THEN Exit(0)
                        ELSE pc' = "askMove" /\ UNCHANGED exitCode
    /\ UNCHANGED <<runVars, confirmed, prompts, slot, idx, decided, sub, store, input>>

(* daily-report-to-mattermost.js:329-352 *)
MM_AskMove ==
    /\ script = "daily-report" /\ pc = "askMove"
    /\ \E shouldProceed \in BOOLEAN :
          /\ prompts' = Append(prompts, 0)
          /\ decided' = Append(decided, shouldProceed)
          /\ IF shouldProceed
             THEN /\ slot' = getNextDueDate(now)
                  /\ idx' = 1
                  /\ pc' = "updateCardDue"
                  /\ UNCHANGED exitCode
             ELSE Exit(0) /\ UNCHANGED <<slot, idx>>
    /\ UNCHANGED <<runVars, log, confirmed, cards, work, sub, store, input, output>>

(* daily-report-to-mattermost.js:354-361 *)
MM_UpdateCardDue ==
    /\ script = "daily-report" /\ pc = "updateCardDue"
    /\ \E ok \in BOOLEAN :
          /\ Issue("updateCardDue", TRUE, work[idx].id, slot, ok)
          /\ IF ~ok THEN Exit(0) /\ UNCHANGED <<slot, idx>>
             ELSE /\ slot' = addMinutes(slot, moveIncrementMinutes)
                  /\ idx' = idx + 1
                  /\ IF idx < Len(work) THEN UNCHANGED <<pc, exitCode>> ELSE Exit(0)
    /\ UNCHANGED <<runVars, confirmed, prompts, cards, work, decided, sub, store, input, output>>

MM_Next ==
    \/ MM_Main
    \/ MM_AskSend
    \/ MM_UploadFile
    \/ MM_PostSummary
    \/ MM_PostTicket
    \/ MM_GetMe
    \/ MM_GetDoingListId
    \/ MM_GetListCards
    \/ MM_AskMove
    \/ MM_UpdateCardDue

SpecDailyReport == MM_Init /\ [][MM_Next]_vars

----------------------------------------------------------------------------
(* One run of any of the scripts that write to a remote service *)

Init ==
    \/ DT_Init
    \/ RW_Init
    \/ CC_Init
    \/ SS_Init
    \/ PR_Init
    \/ RS_Init
    \/ EN_Init
    \/ MM_Init

Next ==
    \/ DT_Next
    \/ RW_Next
    \/ CC_Next
    \/ SS_Next
    \/ PR_Next
    \/ RS_Next
    \/ EN_Next
    \/ MM_Next

Spec == Init /\ [][Next]_vars

(* C1: in every script that mutates remote state, a mutating request is
   issued only after --yes was passed or a confirmation prompt was answered
   yes earlier in the run. *)
C1_ConfirmedBeforeMutation == MutatingRequests # {} => confirmed

(* C2: with --dry-run on the command line, due-today, review-week,
   create-card and trello-set-state issue no mutating request, --yes or not. *)
C2_DryRunNoMutation ==
    (script \in {"due-today", "review-week", "create-card", "trello-set-state"}
       /\ Has(argv, "--dry-run")) => MutatingRequests = {}

(* C4: in the due-today and review-week batch loops a failed mutation does
   not end the batch: when the run is over, every candidate has been handled
   (prompted for or auto-confirmed), also after a mutation failed. *)
C4_BatchContinues ==
    (script \in {"due-today", "review-week"} /\ pc = "exit"
       /\ \E i \in MutatingRequests : ~log[i].ok) => Len(decided) = Len(work)

(* The configuration a script cannot run without: the card service key and
   token, the token of the other service it talks to, and the board id (or
   the Doing list id where the script accepts it instead) *)
requiredConfigAbsent ==
    \/ ~env.key \/ ~env.token
    \/ script \in {"pr-to-trello", "sync-rejected"} /\ ~env.github
    \/ script = "trello-enhance" /\ ~env.openrouter
    \/ script = "daily-report" /\ ~env.mattermost
    \/ script \in {"due-today", "create-card"} /\ ~env.boardId /\ env.doingListId = 0
    \/ script \in {"review-week", "trello-enhance", "sync-rejected"} /\ ~env.boardId

(* C5: a run that lacks required credentials or the board id (or the list id
   that replaces it) ends with a non-zero exit code and has sent no remote
   request. *)
C5_FailsBeforeAnyRequest ==
    (pc = "exit" /\ requiredConfigAbsent) => (exitCode \in {1, 2} /\ log = << >>)

----------------------------------------------------------------------------
(* pr-to-trello: replaceLocalhostUrls applied to one URL of a PR body.      *)
(* A URL is the record of its parts: what precedes the host (the scheme),   *)
(* the host, the digits after the colon, and the path up to the next space  *)
(* or closing parenthesis.  A rewritten URL has its replacement in `base`   *)
(* and keeps what the pattern captured after the port digits.               *)

fixedBase3002 == << "https://artlogic.m.staging.squidweb.org" >>

Url(prefix, host, port, path) ==
    [prefix |-> prefix, base |-> << >>, host |-> host, port |-> port, path |-> path]

startsWith(digits, pre) ==
    Len(digits) >= Len(pre) /\ SubSeq(digits, 1, Len(pre)) = pre

(* baseUrl.replace(/\/$/, "") on a base given as its tokens *)
stripTrailingSlash(baseUrl) ==
    IF Len(baseUrl) > 0 /\ baseUrl[Len(baseUrl)] = "/"
    THEN SubSeq(baseUrl, 1, Len(baseUrl) - 1)
    ELSE baseUrl

(* One text.replace(re, ...) of the function: `ports` are the alternatives  *)
(* of the pattern, withScheme tells whether it starts with (https?:\/\/).   *)
replacePorts(t, ports, withScheme, target) ==
    IF /\ t.host \in { "localhost", "127.0.0.1" }
       /\ \E p \in ports : startsWith(t.port, p)
       /\ withScheme => t.prefix \in { "http://", "https://" }
    THEN [prefix |-> IF withScheme THEN "" ELSE t.prefix,
          base   |-> target,
          host   |-> "",
          port   |-> SubSeq(t.port, 5, Len(t.port)),
          path   |-> t.path]
    ELSE t

replaceLocalhostUrls(text, baseUrl) ==
    IF Len(baseUrl) = 0 THEN text
    ELSE LET base == stripTrailingSlash(baseUrl)
             t1 == replacePorts(text, { <<3, 0, 0, 2>> }, TRUE, fixedBase3002)
             t2 == replacePorts(t1, { <<3, 0, 0, 2>> }, FALSE, fixedBase3002)
             t3 == replacePorts(t2, { <<3, 0, 0, 0>>, <<8, 0, 8, 0>> }, TRUE, base)
         IN replacePorts(t3, { <<3, 0, 0, 0>>, <<8, 0, 8, 0>> }, FALSE, base)

UrlPorts == { <<3, 0, 0, 2>>, <<3, 0, 0, 0>>, <<8, 0, 8, 0>>, <<4, 0, 0, 0>>, <<3, 0, 0, 2, 0>> }

Urls ==
    { Url(s, h, p, q) : s \in { "http://", "https://", "ftp://", "" },
                        h \in { "localhost", "127.0.0.1", "example.com" },
                        p \in UrlPorts,
                        q \in { "", "/a" } }

StagingBases == { << >>, << "https://s.example.com" >>, << "https://s.example.com", "/" >> }

RL_Init ==
    /\ InitRun("replaceLocalhostUrls")
    /\ env = DefaultEnv
    /\ argv = << >>
    /\ flags = DefaultFlags
    /\ confirmed = FALSE
    /\ store = << >>
    /\ now = 0
    /\ board = << >>
    /\ \E u \in Urls, b \in StagingBases : input = << u, b >>

RL_Apply ==
    /\ script = "replaceLocalhostUrls" /\ pc = "main"
    /\ output' = << replaceLocalhostUrls(input[1], input[2]) >>
    /\ pc' = "exit"
    /\ UNCHANGED <<runVars, exitCode, log, confirmed, prompts, slot, cards, work, idx,
                   decided, sub, store, input>>

RL_Next == RL_Apply

SpecReplaceUrls == RL_Init /\ [][RL_Next]_vars

(* C11: replaceLocalhostUrls maps every localhost or 127.0.0.1 URL on port  *)
(* 3002 to the fixed staging host whatever the configured base is, the      *)
(* empty one included; it maps ports 3000 and 8080 to the configured base   *)
(* and keeps the path; a URL on any other port comes back untouched.        *)
C11_ReplaceLocalhostUrls ==
    (script = "replaceLocalhostUrls" /\ pc = "exit") =>
        LET u == input[1]
            b == input[2]
            r == output[1]
            isLocal == /\ u.host \in { "localhost", "127.0.0.1" }
                       /\ u.prefix \in { "http://", "https://", "" }
        IN /\ (isLocal /\ u.port = <<3, 0, 0, 2>>) =>
                  (r.base = fixedBase3002 /\ r.host = "" /\ r.path = u.path)
           /\ (isLocal /\ u.port \in { <<3, 0, 0, 0>>, <<8, 0, 8, 0>> } /\ Len(b) > 0) =>
                  (r.base = stripTrailingSlash(b) /\ r.host = "" /\ r.path = u.path)
           /\ (u.port \notin { <<3, 0, 0, 2>>, <<3, 0, 0, 0>>, <<8, 0, 8, 0>> }) => r = u

----------------------------------------------------------------------------
(* daily-report: parseTime applied to one `time` value of a Planyway        *)
(* ticket.  A string is the sequence of its characters; a value is a record *)
(* of its JavaScript type and, for a string, its characters.                *)

MaxTimeHours == 11

TimeMinutes == { 0, 5, 22, 45, 59 }

DigitChars == << "0", "1", "2", "3", "4", "5", "6", "7", "8", "9" >>

isDigit(c) == \E i \in 1..10 : DigitChars[i] = c

digitValue(c) == (CHOOSE i \in 1..10 : DigitChars[i] = c) - 1

RECURSIVE parseInt(_)
parseInt(digits) ==
    IF digits = << >> THEN 0
    ELSE 10 * parseInt(SubSeq(digits, 1, Len(digits) - 1)) + digitValue(digits[Len(digits)])

(* String(n) for a natural number *)
RECURSIVE decimal(_)
decimal(n) ==
    IF n < 10 THEN << DigitChars[n + 1] >>
    ELSE decimal(n \div 10) \o << DigitChars[(n % 10) + 1] >>

StringValue(chars) == [type |-> "string", chars |-> chars]

NonStrings == { [type |-> "undefined", chars |-> << >>], [type |-> "number", chars |-> << >>] }

(* str.replace(/[^\dh\dm]/g, "") *)
cleanTime(chars) == SelectSeq(chars, LAMBDA c : isDigit(c) \/ c \in { "h", "m" })

(* the start of the digit run that ends at position last *)
RECURSIVE runStart(_, _)
runStart(chars, last) ==
    IF last > 1 /\ isDigit(chars[last - 1]) THEN runStart(chars, last - 1) ELSE last

(* /([0-9]+)<unit>/.exec(clean): the digits of the leftmost match, or << >> *)
execDigits(clean, unit) ==
    LET ends == { i \in 2..Len(clean) : clean[i] = unit /\ isDigit(clean[i - 1]) }
    IN IF ends = { } THEN << >>
       ELSE LET e == CHOOSE i \in ends : \A j \in ends : i <= j
            IN SubSeq(clean, runStart(clean, e - 1), e - 1)

parseTime_minutesOnly(str) ==
    IF str.type # "string" \/ str.chars = << >> THEN 0
    ELSE parseInt(execDigits(cleanTime(str.chars), "m"))

parseTime(str) ==
    IF str.type # "string" \/ str.chars = << >> THEN 0
    ELSE LET clean == cleanTime(str.chars)
             h == execDigits(clean, "h")
             m == execDigits(clean, "m")
         IN parseInt(h) * 60 + parseInt(m)

(* "<h>h <m>m" as Planyway exports it; -1 stands for a part left out *)
timeString(h, m, sep) ==
    (IF h >= 0 THEN decimal(h) \o << "h" >> ELSE << >>)
    \o (IF h >= 0 /\ m >= 0 THEN sep ELSE << >>)
    \o (IF m >= 0 THEN decimal(m) \o << "m" >> ELSE << >>)

TimeSeparators == { << " " >>, << " ", "invisible" >> }

PT_Init ==
    /\ InitRun("parseTime")
    /\ env = DefaultEnv
    /\ argv = << >>
    /\ flags = DefaultFlags
    /\ confirmed = FALSE
    /\ store = << >>
    /\ now = 0
    /\ board = << >>
    /\ \/ \E h \in (-1)..MaxTimeHours, m \in { -1 } \cup TimeMinutes, sep \in TimeSeparators :
             input = << StringValue(timeString(h, m, sep)), h, m >>
       \/ \E v \in NonStrings : input = << v, -1, -1 >>

PT_Apply ==
    /\ script = "parseTime" /\ pc = "main"
    /\ output' = << parseTime(input[1]) >>
    /\ pc' = "exit"
    /\ UNCHANGED <<runVars, exitCode, log, confirmed, prompts, slot, cards, work, idx,
                   decided, sub, store, input>>

PT_Next == PT_Apply

SpecParseTime == PT_Init /\ [][PT_Next]_vars

(* C13: parseTime returns 60*h + m for a time string "<h>h <m>m", a part    *)
(* left out counting as 0, and 0 for an empty or a non-string value.        *)
C13_ParseTime ==
    (script = "parseTime" /\ pc = "exit") =>
        LET h == IF input[2] >= 0 THEN input[2] ELSE 0
            m == IF input[3] >= 0 THEN input[3] ELSE 0
        IN /\ output[1] = 60 * h + m
           /\ (input[1].type # "string" \/ input[1].chars = << >>) => output[1] = 0

C13_Witness ==
    /\ script = "parseTime" /\ pc = "exit"
    /\ input[1] = StringValue(<< "1", "h", " ", "2", "2", "m" >>)
    /\ output[1] = 82

----------------------------------------------------------------------------
(* daily-report: groupPlanywayTickets and the matching of its groups to the *)
(* user's cards.  today.json is an array of rows, each an array of entries; *)
(* an entry is a ticket object or something else (null).  The field         *)
(* `minutes` of a ticket is the number its time string was written from; no *)
(* operator of the program reads it.                                        *)

MaxPlanyway == 3

Ticket(name, h, m) ==
    [isObject |-> TRUE, name |-> name,
     time |-> StringValue(timeString(h, m, << " " >>)), minutes |-> 60 * h + m]

NoTicket == [isObject |-> FALSE, name |-> "", time |-> StringValue(<< >>), minutes |-> 0]

PlanywayEntries ==
    { Ticket(n, t[1], t[2]) : n \in { "", "a", "b" }, t \in { <<1, 22>>, <<0, 45>> } }
    \cup { NoTicket }

RECURSIVE SeqsUpTo(_, _)
SeqsUpTo(S, n) ==
    IF n = 0 THEN { << >> }
    ELSE LET shorter == SeqsUpTo(S, n - 1)
         IN shorter \cup { Append(q, x) : q \in { r \in shorter : Len(r) = n - 1 }, x \in S }

(* tickets.flat() *)
RECURSIVE flat(_)
flat(rows) == IF rows = << >> THEN << >> ELSE Head(rows) \o flat(Tail(rows))

RECURSIVE sumTimes(_)
sumTimes(ts) == IF ts = << >> THEN 0 ELSE parseTime(Head(ts).time) + sumTimes(Tail(ts))

(* the first loop: one group per name not seen yet *)
RECURSIVE groupNames(_, _)
groupNames(entries, seen) ==
    IF entries = << >> THEN << >>
    ELSE LET t == Head(entries)
         IN IF ~t.isObject \/ t.name \in seen THEN groupNames(Tail(entries), seen)
            ELSE << t.name >> \o groupNames(Tail(entries), seen \cup { t.name })

groupPlanywayTickets_oneOnly(tickets) ==
    LET entries == flat(tickets)
        names == groupNames(entries, { })
    IN [ i \in 1..Len(names) |->
           [name |-> names[i],
            totalMinutes |-> parseTime(
                (CHOOSE t \in Range(entries) : t.isObject /\ t.name = names[i]).time)] ]

groupPlanywayTickets(tickets) ==
    LET entries == flat(tickets)
        names == groupNames(entries, { })
    IN [ i \in 1..Len(names) |->
           [name |-> names[i],
            totalMinutes |->
                sumTimes(SelectSeq(entries, LAMBDA t : t.isObject /\ t.name = names[i]))] ]

(* myCards.find((c) => c.name === name): its index, 0 when there is none *)
findCard(myCards, name) ==
    LET hits == { i \in 1..Len(myCards) : myCards[i].name = name }
    IN IF hits = { } THEN 0 ELSE CHOOSE i \in hits : \A j \in hits : i <= j

RECURSIVE trelloMatches(_, _)
trelloMatches(groups, myCards) ==
    IF groups = << >> THEN << >>
    ELSE LET g == Head(groups)
             i == findCard(myCards, g.name)
         IN (IF i = 0 THEN << >>
             ELSE << [name |-> g.name, card |-> myCards[i], trackedMinutes |-> g.totalMinutes] >>)
            \o trelloMatches(Tail(groups), myCards)

MyCards ==
    LET a == [name |-> "a", shortUrl |-> 1]
        b == [name |-> "b", shortUrl |-> 2]
        b2 == [name |-> "b", shortUrl |-> 3]
    IN { << >>, << a >>, << b, b2 >>, << b, a >> }

GP_Init ==
    /\ InitRun("groupPlanywayTickets")
    /\ env = DefaultEnv
    /\ argv = << >>
    /\ flags = DefaultFlags
    /\ confirmed = FALSE
    /\ store = << >>
    /\ now = 0
    /\ board = << >>
    /\ \E entries \in SeqsUpTo(PlanywayEntries, MaxPlanyway), my \in MyCards :
          \E k \in 0..Len(entries) :
             input = << << SubSeq(entries, 1, k), SubSeq(entries, k + 1, Len(entries)) >>, my >>

GP_Apply ==
    /\ script = "groupPlanywayTickets" /\ pc = "main"
    /\ LET groups == groupPlanywayTickets(input[1])
       IN output' = << groups, trelloMatches(groups, input[2]) >>
    /\ pc' = "exit"
    /\ UNCHANGED <<runVars, exitCode, log, confirmed, prompts, slot, cards, work, idx,
                   decided, sub, store, input>>

GP_Next == GP_Apply

SpecGroupTickets == GP_Init /\ [][GP_Next]_vars

firstIndex(entries, name) ==
    CHOOSE i \in 1..Len(entries) :
        /\ entries[i].isObject /\ entries[i].name = name
        /\ \A j \in 1..(i - 1) : ~(entries[j].isObject /\ entries[j].name = name)

RECURSIVE sumMinutes(_, _)
sumMinutes(entries, name) ==
    IF entries = << >> THEN 0
    ELSE (IF Head(entries).isObject /\ Head(entries).name = name THEN Head(entries).minutes ELSE 0)
         + sumMinutes(Tail(entries), name)

(* C12: groupPlanywayTickets returns one group per distinct ticket name in  *)
(* the order of first appearance, each group's totalMinutes being the sum   *)
(* of the times of the tickets of that name; the matched tickets of the     *)
(* report are the groups that have a card, in that same order.              *)
C12_GroupsInOrder ==
    (script = "groupPlanywayTickets" /\ pc = "exit") =>
        LET entries == input[1][1] \o input[1][2]
            names == { t.name : t \in { e \in Range(entries) : e.isObject } }
            groups == output[1]
            matches == output[2]
            cardNames == { c.name : c \in Range(input[2]) }
        IN /\ { g.name : g \in Range(groups) } = names
           /\ Len(groups) = Cardinality(names)
           /\ \A i, j \in 1..Len(groups) :
                 i < j => firstIndex(entries, groups[i].name) < firstIndex(entries, groups[j].name)
           /\ \A i \in 1..Len(groups) :
                 groups[i].totalMinutes = sumMinutes(entries, groups[i].name)
           /\ \E pos \in [1..Len(matches) -> 1..Len(groups)] :
                 /\ \A i, j \in 1..Len(matches) : i < j => pos[i] < pos[j]
                 /\ \A i \in 1..Len(matches) :
                       /\ matches[i].name = groups[pos[i]].name
                       /\ matches[i].trackedMinutes = groups[pos[i]].totalMinutes
                 /\ { pos[i] : i \in 1..Len(matches) }
                       = { i \in 1..Len(groups) : groups[i].name \in cardNames }

C12_Witness ==
    /\ script = "groupPlanywayTickets" /\ pc = "exit"
    /\ Len(output[1]) = 2
    /\ output[1][1].name = "b" /\ output[1][1].totalMinutes = 127
    /\ output[1][2].name = "a"
    /\ Len(output[2]) = 2
    /\ Len(input[1][1]) = 1

----------------------------------------------------------------------------
(* pr-to-trello: parsePrUrl applied to one command-line argument.  A URL is *)
(* the sequence of its tokens: the scheme with its colon, each slash, the   *)
(* host, and the characters of the path segments.                           *)

lowerToken(t) ==
    CASE t = "HTTPS:" -> "https:"
      [] t = "GitHub.com" -> "github.com"
      [] t = "PULL" -> "pull"
      [] OTHER -> t

(* [^\/]+ from position i: the position after its last token *)
RECURSIVE segmentEnd(_, _)
segmentEnd(url, i) ==
    IF i <= Len(url) /\ url[i] # "/" THEN segmentEnd(url, i + 1) ELSE i

(* \d+ from position i: the position after its last digit *)
RECURSIVE digitsEnd(_, _)
digitsEnd(url, i) ==
    IF i <= Len(url) /\ isDigit(url[i]) THEN digitsEnd(url, i + 1) ELSE i

tokenAt(url, i) == IF i <= Len(url) THEN url[i] ELSE ""

NoPr == [matched |-> FALSE, owner |-> << >>, repo |-> << >>, number |-> 0]

parsePrUrl_anyHost(url) ==
    LET ownerEnd == segmentEnd(url, 6)
        repoEnd == segmentEnd(url, ownerEnd + 1)
        numEnd == digitsEnd(url, repoEnd + 3)
    IN IF /\ lowerToken(tokenAt(url, 1)) \in { "http:", "https:" }
          /\ tokenAt(url, 2) = "/" /\ tokenAt(url, 3) = "/"
          /\ tokenAt(url, 5) = "/"
          /\ ownerEnd > 6 /\ tokenAt(url, ownerEnd) = "/"
          /\ repoEnd > ownerEnd + 1 /\ tokenAt(url, repoEnd) = "/"
          /\ lowerToken(tokenAt(url, repoEnd + 1)) = "pull"
          /\ tokenAt(url, repoEnd + 2) = "/"
          /\ numEnd > repoEnd + 3
       THEN [matched |-> TRUE,
             owner |-> SubSeq(url, 6, ownerEnd - 1),
             repo |-> SubSeq(url, ownerEnd + 1, repoEnd - 1),
             number |-> parseInt(SubSeq(url, repoEnd + 3, numEnd - 1))]
       ELSE NoPr

parsePrUrl(url) ==
    IF url = << >> THEN NoPr
    ELSE LET ownerEnd == segmentEnd(url, 6)
             repoEnd == segmentEnd(url, ownerEnd + 1)
             numEnd == digitsEnd(url, repoEnd + 3)
         IN IF /\ lowerToken(tokenAt(url, 1)) \in { "http:", "https:" }
               /\ tokenAt(url, 2) = "/" /\ tokenAt(url, 3) = "/"
               /\ lowerToken(tokenAt(url, 4)) = "github.com"
               /\ tokenAt(url, 5) = "/"
               /\ ownerEnd > 6 /\ tokenAt(url, ownerEnd) = "/"
               /\ repoEnd > ownerEnd + 1 /\ tokenAt(url, repoEnd) = "/"
               /\ lowerToken(tokenAt(url, repoEnd + 1)) = "pull"
               /\ tokenAt(url, repoEnd + 2) = "/"
               /\ numEnd > repoEnd + 3
            THEN [matched |-> TRUE,
                  owner |-> SubSeq(url, 6, ownerEnd - 1),
                  repo |-> SubSeq(url, ownerEnd + 1, repoEnd - 1),
                  number |-> parseInt(SubSeq(url, repoEnd + 3, numEnd - 1))]
            ELSE NoPr

(* The parts an argument is written from; `n` is the number its digits      *)
(* start with, -1 when they start with none.                                *)
PrUrlParts ==
    [scheme : { "https:", "http:", "HTTPS:", "ftp:" },
     host   : { "github.com", "GitHub.com", "gitlab.com" },
     owner  : { << "o" >>, << >> },
     repo   : { << "r" >>, << "r", "-", "2" >> },
     kind   : { "pull", "PULL", "issues" },
     num    : { [chars |-> << "1", "2" >>, n |-> 12], [chars |-> << "7" >>, n |-> 7],
                [chars |-> << >>, n |-> -1], [chars |-> << "a" >>, n |-> -1] },
     tail   : { << >>, << "/", "files" >>, << "a" >> }]

prUrl(p) ==
    << p.scheme, "/", "/", p.host, "/" >> \o p.owner \o << "/" >> \o p.repo
    \o << "/", p.kind, "/" >> \o p.num.chars \o p.tail

PU_Init ==
    /\ InitRun("parsePrUrl")
    /\ env = DefaultEnv
    /\ argv = << >>
    /\ flags = DefaultFlags
    /\ confirmed = FALSE
    /\ store = << >>
    /\ now = 0
    /\ board = << >>
    /\ \E p \in PrUrlParts : input = << prUrl(p), p >>

PU_Apply ==
    /\ script = "parsePrUrl" /\ pc = "main"
    /\ output' = << parsePrUrl(input[1]) >>
    /\ pc' = "exit"
    /\ UNCHANGED <<runVars, exitCode, log, confirmed, prompts, slot, cards, work, idx,
                   decided, sub, store, input>>

PU_Next == PU_Apply

SpecParsePrUrl == PU_Init /\ [][PU_Next]_vars

isPrUrlForm(p) ==
    /\ p.scheme = "https:" /\ p.host = "github.com" /\ p.owner # << >>
    /\ p.kind = "pull" /\ p.num.n >= 0 /\ p.tail = << >>

(* C14 as stated: parsePrUrl returns {owner, repo, number} for every URL    *)
(* https://github.com/<owner>/<repo>/pull/<n> and null for every other URL. *)
C14_ParsePrUrl ==
    (script = "parsePrUrl" /\ pc = "exit") =>
        LET p == input[2]
        IN IF isPrUrlForm(p)
           THEN output[1] = [matched |-> TRUE, owner |-> p.owner, repo |-> p.repo,
                             number |-> p.num.n]
           ELSE output[1] = NoPr

(* C14 amended: parsePrUrl returns {owner, repo, number} exactly for the    *)
(* URLs that begin with http or https, //github.com/<owner>/<repo>/pull/    *)
(* and a digit, letter case ignored and whatever follows the digits; the    *)
(* number is the leading digit run.  Every other URL gives null.            *)
C14_ParsePrUrlPrefix ==
    (script = "parsePrUrl" /\ pc = "exit") =>
        LET p == input[2]
        IN IF /\ p.scheme \in { "https:", "http:", "HTTPS:" }
              /\ p.host \in { "github.com", "GitHub.com" }
              /\ p.owner # << >>
              /\ p.kind \in { "pull", "PULL" }
              /\ p.num.n >= 0
           THEN output[1] = [matched |-> TRUE, owner |-> p.owner, repo |-> p.repo,
                             number |-> p.num.n]
           ELSE output[1] = NoPr

C14_Witness ==
    /\ script = "parsePrUrl" /\ pc = "exit"
    /\ isPrUrlForm(input[2])
    /\ output[1].matched /\ output[1].number = 12 /\ output[1].repo = << "r", "-", "2" >>

----------------------------------------------------------------------------
(* trello-branch-name: one run with one command-line argument.  The         *)
(* argument is the sequence of its tokens (scheme, slashes, host, the       *)
(* pieces of the path, "?" and what follows); a card name is the sequence   *)
(* of its character codes, as the descriptions of trello-enhance are.       *)

(* toLowerCase and normalize('NFKD') of one character *)
lowerCode(c) == IF (c >= 65 /\ c <= 90) \/ c = 201 THEN c + 32 ELSE c

nfkd(c) == IF c = 233 THEN << 101, 769 >> ELSE << c >>

RECURSIVE normalizeName(_)
normalizeName(name) ==
    IF name = << >> THEN << >> ELSE nfkd(lowerCode(Head(name))) \o normalizeName(Tail(name))

(* .replace(/[\s_-]+/g, '-') *)
RECURSIVE collapseSeparators(_)
collapseSeparators(s) ==
    IF s = << >> THEN << >>
    ELSE IF isSpace(Head(s)) \/ Head(s) \in { 45, 95 }
         THEN LET rest == collapseSeparators(Tail(s))
              IN IF rest # << >> /\ Head(rest) = 45
                    /\ Len(s) > 1 /\ (isSpace(s[2]) \/ s[2] \in { 45, 95 })
                 THEN rest ELSE << 45 >> \o rest
         ELSE << Head(s) >> \o collapseSeparators(Tail(s))

RECURSIVE trimDashes(_)
trimDashes(s) ==
    IF s # << >> /\ Head(s) = 45 THEN trimDashes(Tail(s))
    ELSE IF s # << >> /\ s[Len(s)] = 45 THEN trimDashes(SubSeq(s, 1, Len(s) - 1))
    ELSE s

slugifyName(name) ==
    LET kept == SelectSeq(normalizeName(name),
                          LAMBDA c : (c >= 97 /\ c <= 122) \/ (c >= 48 /\ c <= 57)
                                     \/ isSpace(c) \/ c = 45)
    IN trimDashes(collapseSeparators(trim(kept)))

(* `${data.idShort}` *)
RECURSIVE decimalCodes(_)
decimalCodes(n) ==
    IF n < 10 THEN << 48 + n >> ELSE decimalCodes(n \div 10) \o << 48 + (n % 10) >>

(* new URL(inputUrl): whether it parses, and its pathname, in which the     *)
(* characters of the path percent-encode set are written as escapes; the    *)
(* token "U+017C" is the one letter of that code point, outside ASCII       *)
urlParses(url) ==
    /\ Len(url) >= 4
    /\ url[1] \in { "https:", "http:" } /\ url[2] = "/" /\ url[3] = "/"
    /\ url[4] \notin { "/", "?", "#" }

percentEncode(t) ==
    CASE t = "U+017C" -> "%C5%BC"
      [] t = " " -> "%20"
      [] OTHER -> t

RECURSIVE pathnameFrom(_, _)
pathnameFrom(url, i) ==
    IF i > Len(url) \/ url[i] \in { "?", "#" } THEN << >>
    ELSE << percentEncode(url[i]) >> \o pathnameFrom(url, i + 1)

pathname(url) == pathnameFrom(url, 5)

(* pathname.split('/').filter(Boolean) *)
RECURSIVE splitPath(_, _)
splitPath(path, current) ==
    IF path = << >> THEN (IF current = << >> THEN << >> ELSE << current >>)
    ELSE IF Head(path) = "/"
         THEN (IF current = << >> THEN << >> ELSE << current >>) \o splitPath(Tail(path), << >>)
         ELSE splitPath(Tail(path), Append(current, Head(path)))

pathParts(url) == splitPath(pathname(url), << >>)

Slugs ==
    { << "9614", "-", "some", "-", "title" >>, << "9614", "-", "U+017C" >>, << "9614" >> }

CardUrlParts ==
    [scheme : { "https:", "" },
     first  : { "c", "b" },
     slug   : { << >> } \cup Slugs,
     slash  : BOOLEAN,
     query  : { << >>, << "?", "x", "/", "y" >> }]

cardUrl(p) ==
    << p.scheme, "/", "/", "trello.com", "/", p.first, "/", "HeU8mIgO" >>
    \o (IF p.slug # << >> THEN << "/" >> \o p.slug ELSE << >>)
    \o (IF p.slash THEN << "/" >> ELSE << >>)
    \o p.query

CardNames ==
    { << 70, 105, 120, 32, 45, 32, 98, 117, 103, 33 >>,
      << 32, 95, 201, 116, 233, 32, 32, 50, 45 >>,
      << >> }

(* the card the service answers with; idShort -1 stands for a missing field *)
CardData == [idShort : { 9614, 7, -1 }, name : CardNames]

TB_Init ==
    /\ InitRun("trello-branch-name")
    /\ env \in { [DefaultEnv EXCEPT !.key = k, !.token = t] : k \in BOOLEAN, t \in BOOLEAN }
    /\ flags = DefaultFlags
    /\ confirmed = FALSE
    /\ store = << >>
    /\ now = 0
    /\ board = << >>
    /\ \E p \in CardUrlParts, d \in CardData :
          /\ argv \in { << >>, << cardUrl(p) >> }
          /\ input = << p, d >>

(* main and extractTicketId up to the lookup *)
TB_Main ==
    /\ script = "trello-branch-name" /\ pc = "main"
    /\ IF argv = << >> \/ ~urlParses(argv[1]) THEN Exit(1) /\ UNCHANGED output
       ELSE LET parts == pathParts(argv[1])
            IN IF Len(parts) = 0 \/ parts[1] # << "c" >> THEN Exit(1) /\ UNCHANGED output
               ELSE IF Len(parts) >= 3 THEN output' = << parts[3] >> /\ Exit(0)
               ELSE IF Len(parts) = 2
                    THEN IF ensureConfig THEN pc' = "getCard" /\ UNCHANGED <<exitCode, output>>
                         ELSE Exit(1) /\ UNCHANGED output
               ELSE Exit(1) /\ UNCHANGED output
    /\ UNCHANGED <<runVars, log, confirmed, prompts, slot, cards, work, idx, decided, sub,
                   store, input>>

(* client.get(`/cards/${shortLink}`) and the slug made of its answer *)
TB_GetCard ==
    /\ script = "trello-branch-name" /\ pc = "getCard"
    /\ \E ok \in BOOLEAN :
          /\ Issue("getCard", FALSE, 1, 0, ok)
          /\ IF ok /\ input[2].idShort >= 0
             THEN /\ output' = << decimalCodes(input[2].idShort) \o << 45 >>
                                  \o slugifyName(input[2].name) >>
                  /\ Exit(0)
             ELSE Exit(1) /\ UNCHANGED output
    /\ UNCHANGED <<runVars, confirmed, prompts, slot, cards, work, idx, decided, sub, store,
                   input>>

TB_Next == TB_Main \/ TB_GetCard

SpecBranchName == TB_Init /\ [][TB_Next]_vars

(* the argument is a well-formed card URL of the short or of the full form *)
isShortForm(p) == p.scheme = "https:" /\ p.first = "c" /\ p.slug = << >>

isFullForm(p) == p.scheme = "https:" /\ p.first = "c" /\ p.slug # << >>

(* C15: for a short-form card URL extractTicketId makes exactly one lookup  *)
(* call and returns "<idShort>-<slugified card name>"; for a full-form URL  *)
(* it makes no lookup call and returns the slug segment unchanged.          *)
C15_ExtractTicketId ==
    (script = "trello-branch-name" /\ pc = "exit" /\ argv # << >>) =>
        LET p == input[1]
        IN /\ (isShortForm(p) /\ ensureConfig) => Len(log) = 1
           /\ (isShortForm(p) /\ exitCode = 0) =>
                 /\ Len(log) = 1
                 /\ output[1] = decimalCodes(input[2].idShort) \o << 45 >>
                                  \o slugifyName(input[2].name)
           /\ isFullForm(p) => (Len(log) = 0 /\ exitCode = 0 /\ output[1] = p.slug)

----------------------------------------------------------------------------
(* pr-to-trello: parsePRDescription applied to one pull request body.  The  *)
(* body is the sequence of its character codes, 10 the line feed; a code    *)
(* of 1000 or more stands for one whole markdown image, ![alt](url).        *)

MaxLines == 4

Newline == 10

lowerCodes(s) == [i \in 1..Len(s) |-> lowerCode(s[i])]

(* description.split('\n') *)
RECURSIVE splitLines(_, _)
splitLines(text, current) ==
    IF text = << >> THEN << current >>
    ELSE IF Head(text) = Newline THEN << current >> \o splitLines(Tail(text), << >>)
    ELSE splitLines(Tail(text), Append(current, Head(text)))

isNotesMarker_onlyForMe(lowerLine) ==
    includes(lowerLine, << 110, 111, 116, 101, 115, 32, 102, 111, 114, 32, 109, 101 >>)

(* 'notes for me', 'notes:' *)
isNotesMarker(lowerLine) ==
    \/ includes(lowerLine, << 110, 111, 116, 101, 115, 32, 102, 111, 114, 32, 109, 101 >>)
    \/ includes(lowerLine, << 110, 111, 116, 101, 115, 58 >>)

(* 'how to test', 'testing', 'test instructions', 'to test' *)
isTestingMarker(lowerLine) ==
    \/ includes(lowerLine, << 104, 111, 119, 32, 116, 111, 32, 116, 101, 115, 116 >>)
    \/ includes(lowerLine, << 116, 101, 115, 116, 105, 110, 103 >>)
    \/ includes(lowerLine, << 116, 101, 115, 116, 32, 105, 110, 115, 116, 114, 117, 99, 116,
                              105, 111, 110, 115 >>)
    \/ includes(lowerLine, << 116, 111, 32, 116, 101, 115, 116 >>)

(* line.startsWith('#') && !lowerLine.includes('test') *)
isOtherHeading(line) ==
    /\ line # << >> /\ Head(line) = 35
    /\ ~includes(lowerCodes(line), << 116, 101, 115, 116 >>)

(* the matches of the image patterns in one line *)
imagesOf(line) == SelectSeq(line, LAMBDA c : c >= 1000)

RECURSIVE parseLines(_, _, _, _, _)
parseLines(lines, inTestingSection, inNotesSection, testingSection, screenshots) ==
    IF lines = << >>
    THEN [testingInfo |-> trim(testingSection), screenshots |-> screenshots]
    ELSE LET line == trim(Head(lines))
             lowerLine == lowerCodes(line)
             stillTesting == inTestingSection /\ ~isOtherHeading(line)
         IN IF isNotesMarker(lowerLine)
            THEN parseLines(Tail(lines), FALSE, TRUE, testingSection, screenshots)
            ELSE IF isTestingMarker(lowerLine)
            THEN parseLines(Tail(lines), TRUE, FALSE, testingSection, screenshots)
            ELSE IF inNotesSection
            THEN parseLines(Tail(lines), stillTesting, TRUE, testingSection, screenshots)
            ELSE parseLines(Tail(lines), stillTesting, FALSE,
                            IF stillTesting /\ line # << >>
                            THEN testingSection \o line \o << Newline >>
                            ELSE testingSection,
                            screenshots \o imagesOf(line))

parsePRDescription(description) ==
    parseLines(splitLines(description, << >>), FALSE, FALSE, << >>, << >>)

(* "## How To Test", "Testing", "### Notes for me", "notes: x", "# Changes", *)
(* "# Tests", " run it ", "  ", "see <image>"                               *)
BodyLines ==
    << << 35, 35, 32, 72, 111, 119, 32, 84, 111, 32, 84, 101, 115, 116 >>,
       << 84, 101, 115, 116, 105, 110, 103 >>,
       << 35, 35, 35, 32, 78, 111, 116, 101, 115, 32, 102, 111, 114, 32, 109, 101 >>,
       << 110, 111, 116, 101, 115, 58, 32, 120 >>,
       << 35, 32, 67, 104, 97, 110, 103, 101, 115 >>,
       << 35, 32, 84, 101, 115, 116, 115 >>,
       << 32, 114, 117, 110, 32, 105, 116, 32 >>,
       << 32, 32 >>,
       << 115, 101, 101, 32, 1000 >> >>

RECURSIVE joinLines(_)
joinLines(lines) ==
    IF lines = << >> THEN << >>
    ELSE IF Len(lines) = 1 THEN lines[1]
    ELSE Head(lines) \o << Newline >> \o joinLines(Tail(lines))

DS_Init ==
    /\ InitRun("parsePRDescription")
    /\ env = DefaultEnv
    /\ argv = << >>
    /\ flags = DefaultFlags
    /\ confirmed = FALSE
    /\ store = << >>
    /\ now = 0
    /\ board = << >>
    /\ \E kinds \in SeqsUpTo(1..Len(BodyLines), MaxLines) :
          input = << joinLines([i \in 1..Len(kinds) |-> BodyLines[kinds[i]]]), kinds >>

DS_Apply ==
    /\ script = "parsePRDescription" /\ pc = "main"
    /\ output' = << parsePRDescription(input[1]) >>
    /\ pc' = "exit"
    /\ UNCHANGED <<runVars, exitCode, log, confirmed, prompts, slot, cards, work, idx,
                   decided, sub, store, input>>

DS_Next == DS_Apply

SpecParseDescription == DS_Init /\ [][DS_Next]_vars

(* What line number i of the body is, by the place it has in BodyLines *)
lineIsTesting(kinds, i) == kinds[i] \in { 1, 2 }

lineIsNotes(kinds, i) == kinds[i] \in { 3, 4 }

(* line i lies after a testing marker, with no notes marker and no heading  *)
(* without 'test' since                                                     *)
inTesting(kinds, i) ==
    \E j \in 1..(i - 1) :
        /\ lineIsTesting(kinds, j)
        /\ \A k \in (j + 1)..i : ~lineIsNotes(kinds, k) /\ kinds[k] # 5

(* line i lies at or after a notes marker with no testing marker since *)
inNotes(kinds, i) ==
    \E j \in 1..i :
        /\ lineIsNotes(kinds, j)
        /\ \A k \in (j + 1)..i : ~lineIsTesting(kinds, k)

RECURSIVE expectedTesting(_, _)
expectedTesting(kinds, i) ==
    IF i > Len(kinds) THEN << >>
    ELSE (IF inTesting(kinds, i) /\ kinds[i] \in { 6, 7, 9 }
          THEN trim(BodyLines[kinds[i]]) \o << Newline >> ELSE << >>)
         \o expectedTesting(kinds, i + 1)

(* C16: testingInfo holds only the non-empty lines after a testing marker   *)
(* and before the next heading without 'test' or the next notes marker; no  *)
(* line between a notes marker and the next testing marker contributes to   *)
(* testingInfo or to the screenshots.                                       *)
C16_TestingSection ==
    (script = "parsePRDescription" /\ pc = "exit") =>
        LET kinds == input[2]
            r == output[1]
            shown == { i \in 1..Len(kinds) : kinds[i] = 9 /\ ~inNotes(kinds, i) }
        IN /\ r.testingInfo = trim(expectedTesting(kinds, 1))
           /\ Len(r.screenshots) = Cardinality(shown)

C16_Witness ==
    /\ script = "parsePRDescription" /\ pc = "exit"
    /\ input[2] = << 1, 9, 4, 9 >>
    /\ output[1].testingInfo = << 115, 101, 101, 32, 1000 >>
    /\ Len(output[1].screenshots) = 1

----------------------------------------------------------------------------
(* daily-report.js: one run of generateQuickReport.  `store` is the set of  *)
(* files of the working directory; a file name is the record of its parts,  *)
(* hour -1 standing for a name without the hour part.                       *)

File(name, day, hour, ext) == [name |-> name, day |-> day, hour |-> hour, ext |-> ext]

(* `trello-summary-${dayjs().format("YYYY-MM-DD-HH")}.json` *)
cacheFile(t) == File("trello-summary-", formatDate(t), hourOf(t), ".json")

isOldCache_never(file, today) == FALSE

(* file.startsWith('trello-summary-') && file.endsWith('.json')
   && !file.startsWith(`trello-summary-${today}-`) *)
isOldCache(file, today) ==
    /\ file.name = "trello-summary-"
    /\ file.ext = ".json"
    /\ ~(file.day = today /\ file.hour >= 0)

WorkingFiles ==
    { File("trello-summary-", -1, 9, ".json"), File("trello-summary-", 0, 9, ".json"),
      File("trello-summary-", 0, 10, ".json"), File("trello-summary-", 0, -1, ".json"),
      File("trello-summary-", -1, 9, ".md"), File("today", 0, -1, ".json") }

TodayJson ==
    { << << Ticket("b", 1, 22), Ticket("a", 0, 45) >>, << Ticket("b", 0, 45) >> >>,
      << << NoTicket >>, << Ticket("a", 1, 22) >> >> }

DR_Init ==
    /\ InitRun("generateQuickReport")
    /\ env \in { [DefaultEnv EXCEPT !.key = k] : k \in BOOLEAN }
    /\ argv = << >>
    /\ flags = DefaultFlags
    /\ confirmed = FALSE
    /\ now = At(0, 10, 7, 0)
    /\ board = << >>
    /\ store \in SUBSET WorkingFiles
    /\ \E readable \in BOOLEAN, tickets \in TodayJson, my \in MyCards :
          input = [readable |-> readable, tickets |-> tickets, myCards |-> my, files |-> store]

(* the module's first statements and the clean-up of generateQuickReport;   *)
(* an unreadable today.json throws before the function is called            *)
DR_Main ==
    /\ script = "generateQuickReport" /\ pc = "main"
    /\ IF ~input.readable THEN Exit(1) /\ UNCHANGED store
       ELSE /\ store' = { f \in store : ~isOldCache(f, formatDate(now)) }
            /\ pc' = "getMe" /\ UNCHANGED exitCode
    /\ UNCHANGED <<runVars, log, confirmed, prompts, slot, cards, work, idx, decided, sub,
                   input, output>>

(* every throw inside the try is printed by the catch and the run ends      *)
DR_GetMe ==
    /\ script = "generateQuickReport" /\ pc = "getMe"
    /\ IF ~ensureConfig THEN Exit(0) /\ UNCHANGED log
       ELSE \E ok \in BOOLEAN :
               /\ Issue("getMe", FALSE, 0, 0, ok)
               /\ IF ~ok THEN Exit(0)
                  ELSE /\ pc' = IF cacheFile(now) \in store THEN "report" ELSE "getBoardLists"
                       /\ UNCHANGED exitCode
    /\ UNCHANGED <<runVars, confirmed, prompts, slot, cards, work, idx, decided, sub, store,
                   input, output>>

DR_GetBoardLists ==
    /\ script = "generateQuickReport" /\ pc = "getBoardLists"
    /\ \E ok \in BOOLEAN :
          /\ Issue("getBoardLists", FALSE, 0, 0, ok)
          /\ IF ok THEN pc' = "getBoardCards" /\ UNCHANGED exitCode ELSE Exit(0)
    /\ UNCHANGED <<runVars, confirmed, prompts, slot, cards, work, idx, decided, sub, store,
                   input, output>>

DR_GetBoardCards ==
    /\ script = "generateQuickReport" /\ pc = "getBoardCards"
    /\ \E ok \in BOOLEAN :
          /\ Issue("getBoardCards", FALSE, 0, 0, ok)
          /\ IF ok THEN /\ store' = store \cup { cacheFile(now) }
                        /\ pc' = "report" /\ UNCHANGED exitCode
                   ELSE Exit(0) /\ UNCHANGED store
    /\ UNCHANGED <<runVars, confirmed, prompts, slot, cards, work, idx, decided, sub,
                   input, output>>

DR_Report ==
    /\ script = "generateQuickReport" /\ pc = "report"
    /\ LET groups == groupPlanywayTickets(input.tickets)
       IN output' = << groups, trelloMatches(groups, input.myCards) >>
    /\ Exit(0)
    /\ UNCHANGED <<runVars, log, confirmed, prompts, slot, cards, work, idx, decided, sub,
                   store, input>>

DR_Next == DR_Main \/ DR_GetMe \/ DR_GetBoardLists \/ DR_GetBoardCards \/ DR_Report

SpecQuickReport == DR_Init /\ [][DR_Next]_vars

(* C17 as stated: a daily-report run never deletes an existing cache        *)
(* snapshot file; every snapshot present before the run is present after.   *)
C17_SnapshotsKept ==
    script = "generateQuickReport" =>
        \A f \in input.files : (f.name = "trello-summary-" /\ f.ext = ".json") => f \in store

(* C17 amended: once generateQuickReport has started, the snapshot files    *)
(* whose name does not begin with trello-summary-<today>- are gone, and     *)
(* every other file that was there before the run is still there.           *)
C17_OnlyTodaysKept ==
    (script = "generateQuickReport" /\ pc # "main" /\ input.readable) =>
        \A f \in input.files :
            IF f.name = "trello-summary-" /\ f.ext = ".json" /\ (f.day # 0 \/ f.hour < 0)
            THEN f \notin store
            ELSE f \in store

C17_Witness ==
    /\ script = "generateQuickReport" /\ pc = "exit"
    /\ File("trello-summary-", -1, 9, ".json") \in input.files
    /\ File("trello-summary-", -1, 9, ".json") \notin store
    /\ File("trello-summary-", 0, 9, ".json") \in store

----------------------------------------------------------------------------
(* Claims about the cache file of trello-enhance *)

(* C18 as stated: when the cache file of trello-enhance holds malformed     *)
(* JSON, the run reports the failure and exits without any card update.     *)
C18_MalformedCacheStops ==
    (script = "trello-enhance" /\ ~store.parses) =>
        /\ RequestsOf("updateCard") = {}
        /\ pc \notin { "loop", "generateDescription", "askApply", "updateCard" }

(* C18 amended: a cache file with malformed JSON is read as an empty cache  *)
(* and ends nothing: the loop starts with no entry for any card, and a run  *)
(* that ends with code 2 lacks configuration, one that ends with code 1     *)
(* had a request fail.                                                      *)
C18_MalformedCacheIsEmpty ==
    (script = "trello-enhance" /\ ~store.parses) =>
        /\ (pc = "loop" /\ idx = 1) => output = EmptyCache
        /\ exitCode = 2 => (~ensureConfig \/ ~env.boardId \/ ~env.openrouter)
        /\ exitCode = 1 => \E i \in DOMAIN log : ~log[i].ok

C18_Witness ==
    /\ script = "trello-enhance" /\ ~store.parses
    /\ store.data # EmptyCache
    /\ \E i \in RequestsOf("updateCard") : log[i].ok

----------------------------------------------------------------------------
(* lib/trello: one call of one exported operation.  output holds how the    *)
(* call ended: the value "returned" or the message of the error thrown.     *)

MaxListIds == 2

Operations ==
    { "getMe", "getBoardLists", "getListByName", "getListCards", "getCardsInLists",
      "getBoardCards", "getListNameById", "moveCardToList", "setCardDueComplete",
      "updateCardDue", "getCard", "getCardComments", "getCardAttachments",
      "addCardAttachment", "getCardChecklists", "getCardFull",
      "getBoardCardsWithPluginData", "getCardActions", "resolveDoneListId" }

(* the operation whose request a delegating operation sends *)
delegate(op) ==
    IF op \in { "getListByName", "getListNameById" } THEN "getBoardLists" ELSE op

isWrite(op) ==
    op \in { "moveCardToList", "setCardDueComplete", "updateCardDue", "addCardAttachment" }

TL_Init ==
    /\ InitRun("lib/trello")
    /\ env \in { [DefaultEnv EXCEPT !.key = k, !.token = t] : k \in BOOLEAN, t \in BOOLEAN }
    /\ argv = << >>
    /\ flags = DefaultFlags
    /\ confirmed = FALSE
    /\ store = << >>
    /\ now = 0
    /\ board \in { b \in Boards : Len(b) = 2 }
    /\ \E op \in Operations, n \in 0..MaxListIds, url \in BOOLEAN :
          input = [op |-> op, listIds |-> n, url |-> url]

(* the call up to its first await *)
TL_Call ==
    /\ script = "lib/trello" /\ pc = "main"
    /\ IF input.op = "resolveDoneListId"
       THEN /\ output' = << "returned", resolveDoneListId(board, 0, "Done") >>
            /\ pc' = "exit" /\ UNCHANGED <<log, idx>>
       ELSE IF input.op = "getCardsInLists"
       THEN /\ idx' = 1
            /\ pc' = "getListCards" /\ UNCHANGED <<log, output>>
       ELSE IF ~ensureConfig
       THEN /\ output' = << "Missing Trello configuration" >>
            /\ pc' = "exit" /\ UNCHANGED <<log, idx>>
       ELSE IF input.op = "addCardAttachment" /\ ~input.url
       THEN /\ output' = << "Attachment url is required" >>
            /\ pc' = "exit" /\ UNCHANGED <<log, idx>>
       ELSE \E ok \in BOOLEAN :
               /\ Issue(delegate(input.op), isWrite(input.op), 1, 0, ok)
               /\ output' = << IF ok THEN "returned" ELSE "request failed" >>
               /\ pc' = "exit" /\ UNCHANGED idx
    /\ UNCHANGED <<runVars, exitCode, confirmed, prompts, slot, cards, work, decided, sub,
                   store, input>>

(* getCardsInLists: one getListCards per list id *)
TL_GetListCards ==
    /\ script = "lib/trello" /\ pc = "getListCards"
    /\ IF idx > input.listIds
       THEN /\ output' = << "returned" >>
            /\ pc' = "exit" /\ UNCHANGED <<log, idx>>
       ELSE IF ~ensureConfig
       THEN /\ output' = << "Missing Trello configuration" >>
            /\ pc' = "exit" /\ UNCHANGED <<log, idx>>
       ELSE \E ok \in BOOLEAN :
               /\ Issue("getListCards", FALSE, 0, idx, ok)
               /\ IF ok THEN idx' = idx + 1 /\ UNCHANGED <<pc, output>>
                  ELSE /\ output' = << "request failed" >>
                       /\ pc' = "exit" /\ UNCHANGED idx
    /\ UNCHANGED <<runVars, exitCode, confirmed, prompts, slot, cards, work, decided, sub,
                   store, input>>

TL_Next == TL_Call \/ TL_GetListCards

SpecTrelloLib == TL_Init /\ [][TL_Next]_vars

(* C19 as stated: with the key or the token absent, every exported          *)
(* operation, delegating ones included, raises the missing-configuration    *)
(* error and sends no request.                                              *)
C19_EveryOperationChecks ==
    (script = "lib/trello" /\ ~(env.key /\ env.token)) =>
        /\ log = << >>
        /\ pc = "exit" => output = << "Missing Trello configuration" >>

(* C19 amended: with the key or the token absent no exported operation      *)
(* sends a request, and every one raises the missing-configuration error    *)
(* except resolveDoneListId, which checks nothing, and getCardsInLists      *)
(* called with no list id, which returns the empty result.                  *)
C19_NoRequestWithoutConfig ==
    (script = "lib/trello" /\ ~(env.key /\ env.token)) =>
        /\ log = << >>
        /\ pc = "exit" =>
              IF \/ input.op = "resolveDoneListId"
                 \/ input.op = "getCardsInLists" /\ input.listIds = 0
              THEN output[1] = "returned"
              ELSE output = << "Missing Trello configuration" >>

C19_Witness ==
    /\ script = "lib/trello" /\ pc = "exit"
    /\ env.key /\ ~env.token
    /\ input.op = "getListNameById"
    /\ output = << "Missing Trello configuration" >>
    /\ log = << >>

----------------------------------------------------------------------------
(* One run of any script, the read-only ones included *)

AllInit == Init \/ DR_Init \/ TB_Init

AllNext == Next \/ DR_Next \/ TB_Next

SpecAllScripts == AllInit /\ [][AllNext]_vars

(* C20: a script run that ends because of a configuration or runtime error  *)
(* ends with exit code 1 or 2; here, the step in which a request fails and  *)
(* the run ends sets exit code 1 or 2, never 0.                             *)
C20_ErrorExitCodes ==
    [][(/\ pc # "exit" /\ pc' = "exit"
        /\ Len(log') > Len(log)
        /\ ~log'[Len(log')].ok) => exitCode' \in { 1, 2 }]_vars

----------------------------------------------------------------------------
(* Claims about the selection of review-week *)

(* what the claims say of one fetched card, apart from its due date *)
reviewable(c) == ~c.closed /\ ~c.dueComplete /\ (flags.all \/ myId \in c.idMembers)

(* C21 as stated: review-week selects exactly the fetched cards whose due   *)
(* date falls within the current Monday-to-Sunday week, that are not closed *)
(* and not dueComplete and, without --all, are assigned to the user.        *)
C21_DueThisWeek ==
    (script = "review-week" /\ pc = "loop") =>
        \A i \in DOMAIN cards :
            (cards[i] \in Range(work)) <=>
                /\ reviewable(cards[i])
                /\ cards[i].due.set
                /\ cards[i].due.at >= getWeekRange(now).start
                /\ cards[i].due.at <= getWeekRange(now).end

----------------------------------------------------------------------------
(* lib/trello: getListByName called with one name on one board *)

MaxBoardLists == 3

BoardListKinds ==
    { << n, c >> : n \in { "Doing", "DOING", "Doing later", "Review" }, c \in BOOLEAN }

(* the boards of up to MaxBoardLists lists, a list's id being its position *)
SmallBoards ==
    UNION { { [i \in 1..m |-> List(i, k[i][1], k[i][2])] : k \in [1..m -> BoardListKinds] }
            : m \in 0..MaxBoardLists }

LN_Init ==
    /\ InitRun("getListByName")
    /\ env = DefaultEnv
    /\ argv = << >>
    /\ flags = DefaultFlags
    /\ confirmed = FALSE
    /\ store = << >>
    /\ now = 0
    /\ board \in SmallBoards
    /\ \E name \in { "doing", "Doing", "review", "later" } : input = << name >>

LN_Call ==
    /\ script = "getListByName" /\ pc = "main"
    /\ \E ok \in BOOLEAN :
          /\ Issue("getBoardLists", FALSE, 0, 0, ok)
          /\ output' = IF ok THEN << getListByName(input[1]) >> ELSE << >>
    /\ pc' = "exit"
    /\ UNCHANGED <<runVars, exitCode, confirmed, prompts, slot, cards, work, idx, decided,
                   sub, store, input>>

LN_Next == LN_Call

SpecGetListByName == LN_Init /\ [][LN_Next]_vars

(* two names that are equal when letter case is ignored *)
sameNameIgnoringCase(a, b) ==
    \E class \in { { "Doing", "DOING", "doing" }, { "Doing later" }, { "Review", "review" },
                   { "later" } } : a \in class /\ b \in class

(* C22: getListByName returns the first non-closed list of the board whose  *)
(* name equals the given name ignoring case, and null when there is none;   *)
(* a closed list or a list whose name only contains the name is never it.   *)
C22_ExactNameOpenList ==
    (script = "getListByName" /\ pc = "exit" /\ output # << >>) =>
        LET hits == { i \in DOMAIN board :
                        ~board[i].closed /\ sameNameIgnoringCase(board[i].name, input[1]) }
        IN IF hits = { } THEN output[1] = NoList
           ELSE \E i \in hits : output[1] = board[i] /\ \A j \in hits : i <= j

C22_Witness ==
    /\ script = "getListByName" /\ pc = "exit"
    /\ input = << "doing" >>
    /\ board = << List(1, "Doing later", FALSE), List(2, "Doing", TRUE), List(3, "DOING", FALSE) >>
    /\ output = << List(3, "DOING", FALSE) >>

----------------------------------------------------------------------------
(* planyway-watch.js: the polling loop.  `store` is prev, `work` holds the  *)
(* snapshot of the current poll, `output` what the poll printed, and `log`  *)
(* the requests of the current poll only, so that the loop can go on for    *)
(* ever in a finite state space.                                            *)

PluginEntry(id, value) == [id |-> id, value |-> value]

(* list.sort((a, b) => a.id.localeCompare(b.id)) *)
RECURSIVE sortById(_)
sortById(list) ==
    IF list = << >> THEN << >>
    ELSE LET least == CHOOSE i \in DOMAIN list : \A j \in DOMAIN list : list[i].id <= list[j].id
         IN << list[least] >>
            \o sortById(SubSeq(list, 1, least - 1) \o SubSeq(list, least + 1, Len(list)))

normalizePluginData(list) == sortById(list)

(* fetchSnapshot: the card's own pluginData unless the direct fetch         *)
(* succeeded with a non-empty array.  The digest is the SHA-1 of the        *)
(* sorted-key JSON text of `normalized`, two of which are taken to be       *)
(* equal exactly when the normalized values are.                            *)
fetchSnapshot(card, direct, directOk) ==
    LET pluginData == IF directOk /\ direct # << >> THEN direct ELSE card.pluginData
        normalized == [meta |-> [dueComplete |-> card.dueComplete, idList |-> card.idList],
                       pluginData |-> normalizePluginData(pluginData)]
    IN [normalized |-> normalized, digest |-> << "sha1", normalized >>]

NoSnapshot ==
    [set |-> FALSE,
     snap |-> fetchSnapshot([dueComplete |-> FALSE, idList |-> 0, pluginData |-> << >>],
                            << >>, FALSE)]

isChange_always(prev, snap) == prev.set

(* planyway-watch.js:125 *)
isChange(prev, snap) == prev.set /\ snap.digest # prev.snap.digest

PluginLists ==
    { << >>, << PluginEntry(1, "a") >>,
      << PluginEntry(1, "a"), PluginEntry(2, "b") >>,
      << PluginEntry(2, "b"), PluginEntry(1, "a") >> }

WatchedCards ==
    [dueComplete : BOOLEAN, idList : { 1, 2 }, pluginData : { << >>, << PluginEntry(1, "a") >> }]

PW_Init ==
    /\ InitRun("planyway-watch")
    /\ env \in { [DefaultEnv EXCEPT !.key = k] : k \in BOOLEAN }
    /\ argv \in { << >>, << "--help" >>, << "--card", "c1" >> }
    /\ flags = DefaultFlags
    /\ confirmed = FALSE
    /\ store = NoSnapshot
    /\ now = 0
    /\ board = << >>
    /\ input = << >>

(* planyway-watch.js:110-115 *)
PW_Main ==
    /\ script = "planyway-watch" /\ pc = "main"
    /\ IF ~ensureConfig THEN Exit(1)
       ELSE IF Has(argv, "--help") \/ ~Has(argv, "--card") THEN Exit(0)
       ELSE pc' = "fetchSnapshot" /\ UNCHANGED exitCode
    /\ UNCHANGED <<runVars, log, confirmed, prompts, slot, cards, work, idx, decided, sub,
                   store, input, output>>

(* one pass of the try block, planyway-watch.js:119-151 *)
PW_FetchSnapshot ==
    /\ script = "planyway-watch" /\ pc = "fetchSnapshot"
    /\ \E ok \in BOOLEAN, directOk \in BOOLEAN, card \in WatchedCards, direct \in PluginLists :
          IF ~ok
          THEN /\ log' = << Request("getCardFull", FALSE, 1, 0, FALSE) >>
               /\ output' = << "Watch error" >>
               /\ UNCHANGED <<store, work>>
          ELSE LET snap == fetchSnapshot(card, direct, directOk)
               IN /\ log' = << Request("getCardFull", FALSE, 1, 0, TRUE),
                               Request("getPluginData", FALSE, 1, 0, directOk) >>
                  /\ work' = << snap >>
                  /\ IF ~store.set
                     THEN output' = << "Initial snapshot" >> /\ store' = [set |-> TRUE, snap |-> snap]
                     ELSE IF isChange(store, snap)
                     THEN output' = << "Change detected" >> /\ store' = [set |-> TRUE, snap |-> snap]
                     ELSE output' = << >> /\ UNCHANGED store
    /\ pc' = "sleep"
    /\ UNCHANGED <<runVars, exitCode, confirmed, prompts, slot, cards, idx, decided, sub, input>>

(* planyway-watch.js:152 *)
PW_Sleep ==
    /\ script = "planyway-watch" /\ pc = "sleep"
    /\ pc' = "fetchSnapshot"
    /\ UNCHANGED <<runVars, exitCode, log, confirmed, prompts, slot, cards, work, idx,
                   decided, sub, store, input, output>>

PW_Next == PW_Main \/ PW_FetchSnapshot \/ PW_Sleep

SpecPlanywayWatch == PW_Init /\ [][PW_Next]_vars

(* C23: at a poll of planyway-watch a change is reported exactly when the   *)
(* fetched snapshot's digest differs from the recorded one's, and then the  *)
(* fetched snapshot becomes the recorded one; a poll whose fetch fails      *)
(* leaves the recorded snapshot as it is; either way the loop goes on to    *)
(* the sleep and from there to the next poll, and never ends.               *)
C23_PollReportsChange ==
    [][(script = "planyway-watch" /\ pc \in { "fetchSnapshot", "sleep" }) =>
          /\ pc' = IF pc = "sleep" THEN "fetchSnapshot" ELSE "sleep"
          /\ exitCode' = exitCode
          /\ pc = "fetchSnapshot" =>
                IF ~log'[1].ok THEN store' = store /\ output' # << "Change detected" >>
                ELSE /\ store.set =>
                           (output' = << "Change detected" >>
                               <=> work'[1].digest # store.snap.digest)
                     /\ output' = << "Change detected" >> => store'.snap = work'[1]
                     /\ (store.set /\ output' # << "Change detected" >>) => store' = store]_vars

C23_Witness ==
    /\ script = "planyway-watch" /\ pc = "sleep"
    /\ output = << "Change detected" >>
    /\ ~log[2].ok
    /\ Len(store.snap.normalized.pluginData) = 1

----------------------------------------------------------------------------
(* C25: in due-today the first slot is today 09:00 when the run starts at   *)
(* or before 09:00, and otherwise the first 5-minute boundary not before    *)
(* the start; in both cases it is not earlier than the start of the run.    *)
fiveMinutes == 5 * TicksPerMinute

C25_FirstSlotNotBeforeStart ==
    (script = "due-today" /\ pc = "loop" /\ idx = 1) =>
        LET nine == startOfDay(now) + 9 * TicksPerHour
        IN /\ slot = IF now <= nine THEN nine
                     ELSE ((now + fiveMinutes - 1) \div fiveMinutes) * fiveMinutes
           /\ slot >= now

----------------------------------------------------------------------------
(* C26: due-today sends updateCardDue only for cards of the fetched Doing   *)
(* list that are assigned to the current user and whose due day is before   *)
(* today and at most 7 calendar days before it; the assigned cards overdue  *)
(* by more than that are the ones listed, and none of them is updated.      *)
overdueDays(c) == formatDate(now) - formatDate(c.due.at)

C26_OnlyRecentOverdueUpdated ==
    script = "due-today" =>
        /\ \A i \in DOMAIN log :
              log[i].op = "updateCardDue" =>
                  \E j \in DOMAIN cards :
                      /\ cards[j].id = log[i].card
                      /\ myId \in cards[j].idMembers
                      /\ cards[j].due.set
                      /\ overdueDays(cards[j]) \in 1..7
        /\ pc \in { "loop", "update", "exit" } /\ cards # << >> =>
              /\ \A j \in DOMAIN cards :
                    (myId \in cards[j].idMembers /\ cards[j].due.set
                         /\ overdueDays(cards[j]) > 7)
                        <=> cards[j] \in Range(output)
              /\ \A i \in DOMAIN log :
                    log[i].op = "updateCardDue" =>
                        \A k \in DOMAIN output : output[k].id # log[i].card

C26_Witness ==
    /\ script = "due-today" /\ pc = "exit"
    /\ output # << >>
    /\ \E i \in DOMAIN log, j \in DOMAIN cards :
          /\ log[i].op = "updateCardDue" /\ log[i].ok
          /\ cards[j].id = log[i].card
          /\ overdueDays(cards[j]) = 7

----------------------------------------------------------------------------
(* The rejected pull-request sync run twice against the same repository     *)
(* (create-card.js:233-392).  `store` is the remote state of the pull       *)
(* requests linked from the user's rejected cards: whether the label is on, *)
(* how many other comments were there first, and how many copies of the     *)
(* rejection comment follow them.  `sub` is the number of the run and is    *)
(* written into each request.                                               *)

PageSize == 100

RemotePrs ==
    [hasLabel : BOOLEAN, others : { 0, PageSize - 1, PageSize }, mine : { 0, 1 }]

RemotePrLists == UNION { [1..n -> RemotePrs] : n \in 0..MaxPrs }

(* GET .../issues/N/comments with per_page 100: the first page only, oldest *)
(* first; data.some((comment) => comment.body === message)                  *)
commentExists(pr) == pr.mine > 0 /\ pr.others < PageSize

RT_Init ==
    /\ InitRun("sync-rejected-twice")
    /\ env \in { [DefaultEnv EXCEPT !.github = g] : g \in BOOLEAN }
    /\ store \in RemotePrLists
    /\ board = << >>
    /\ input = << >>
    /\ argv = << >>
    /\ flags = DefaultFlags
    /\ confirmed = FALSE
    /\ now = At(0, 10, 7, 0)

(* main, create-card.js:335-339 *)
RT_Main ==
    /\ script = "sync-rejected-twice" /\ pc = "main"
    /\ IF ~env.github THEN Exit(1) /\ UNCHANGED sub
       ELSE pc' = "mapCardsToPrs" /\ sub' = 1 /\ UNCHANGED exitCode
    /\ UNCHANGED <<runVars, log, confirmed, prompts, slot, cards, work, idx, decided,
                   store, input, output>>

(* mapCardsToPrs, create-card.js:260-276: each linked pull request is       *)
(* fetched; one that cannot be fetched is dropped with a warning            *)
RT_MapCardsToPrs ==
    /\ script = "sync-rejected-twice" /\ pc = "mapCardsToPrs"
    /\ \E oks \in [DOMAIN store -> BOOLEAN] :
          LET fetched == SelectSeq([i \in DOMAIN store |->
                                       [pr |-> i, existingLabels |-> store[i].hasLabel]],
                                   LAMBDA p : oks[p.pr])
          IN /\ log' = log \o [i \in DOMAIN store |-> Request("getPull", FALSE, i, sub, oks[i])]
             /\ work' = fetched
             /\ idx' = 1
             /\ IF fetched = << >> THEN Exit(0)
                ELSE pc' = "ensureRejectedLabel" /\ UNCHANGED exitCode
    /\ UNCHANGED <<runVars, confirmed, prompts, slot, cards, decided, sub, store, input,
                   output>>

(* ensureRejectedLabel, create-card.js:279-300 *)
RT_EnsureRejectedLabel ==
    /\ script = "sync-rejected-twice" /\ pc = "ensureRejectedLabel"
    /\ IF work[idx].existingLabels
       THEN pc' = "leaveRejectedComment" /\ UNCHANGED <<exitCode, log, store>>
       ELSE \E ok \in BOOLEAN :
               /\ Issue("addLabel", TRUE, work[idx].pr, sub, ok)
               /\ IF ok
                  THEN /\ store' = [store EXCEPT ![work[idx].pr].hasLabel = TRUE]
                       /\ pc' = "leaveRejectedComment"
                       /\ UNCHANGED exitCode
                  ELSE Exit(1) /\ UNCHANGED store
    /\ UNCHANGED <<runVars, confirmed, prompts, slot, cards, work, idx, decided, sub, input,
                   output>>

RT_NextPr ==
    IF idx < Len(work)
    THEN idx' = idx + 1 /\ pc' = "ensureRejectedLabel" /\ UNCHANGED exitCode
    ELSE idx' = idx + 1 /\ Exit(0)

(* leaveRejectedComment, create-card.js:302-318 *)
RT_LeaveRejectedComment ==
    /\ script = "sync-rejected-twice" /\ pc = "leaveRejectedComment"
    /\ \E ok \in BOOLEAN :
          /\ Issue("getPrComments", FALSE, work[idx].pr, sub, ok)
          /\ IF ~ok THEN Exit(1) /\ UNCHANGED idx
             ELSE IF commentExists(store[work[idx].pr]) THEN RT_NextPr
             ELSE pc' = "postComment" /\ UNCHANGED <<exitCode, idx>>
    /\ UNCHANGED <<runVars, confirmed, prompts, slot, cards, work, decided, sub, store,
                   input, output>>

(* leaveRejectedComment, create-card.js:319-332 *)
RT_PostComment ==
    /\ script = "sync-rejected-twice" /\ pc = "postComment"
    /\ \E ok \in BOOLEAN :
          /\ Issue("postPrComment", TRUE, work[idx].pr, sub, ok)
          /\ IF ok
             THEN /\ store' = [store EXCEPT ![work[idx].pr].mine = @ + 1]
                  /\ RT_NextPr
             ELSE Exit(1) /\ UNCHANGED <<idx, store>>
    /\ UNCHANGED <<runVars, confirmed, prompts, slot, cards, work, decided, sub, input,
                   output>>

(* the script is started again; nothing else touched the repository *)
RT_SecondRun ==
    /\ script = "sync-rejected-twice" /\ pc = "exit" /\ sub = 1
    /\ sub' = 2
    /\ pc' = "mapCardsToPrs"
    /\ exitCode' = -1
    /\ work' = << >>
    /\ idx' = 0
    /\ UNCHANGED <<runVars, log, confirmed, prompts, slot, cards, decided, store, input,
                   output>>

RT_Next ==
    \/ RT_Main
    \/ RT_MapCardsToPrs
    \/ RT_EnsureRejectedLabel
    \/ RT_LeaveRejectedComment
    \/ RT_PostComment
    \/ RT_SecondRun

SpecSyncRejectedTwice == RT_Init /\ [][RT_Next]_vars

requestsOfRun(run, op, pr) ==
    { i \in DOMAIN log : log[i].arg = run /\ log[i].op = op /\ log[i].card = pr }

(* C27: when the first run of the rejected-PR sync went through without a   *)
(* failed request, a second run adds no label and no comment; and within    *)
(* one run each pull request is labelled and commented at most once.        *)
C27_SecondRunAddsNothing ==
    script = "sync-rejected-twice" =>
        /\ (\A i \in DOMAIN log : log[i].arg = 1 => log[i].ok) =>
               \A i \in DOMAIN log : log[i].arg = 2 => ~log[i].mut
        /\ \A run \in 1..2, pr \in DOMAIN store :
               /\ Cardinality(requestsOfRun(run, "addLabel", pr)) <= 1
               /\ Cardinality(requestsOfRun(run, "postPrComment", pr)) <= 1

----------------------------------------------------------------------------
(* The merge of trello-enhance.js:462-480 applied to a description, and     *)
(* then once more to its own result.                                        *)

MergeModes == { "prepend", "append", "replace" }

MergeTexts ==
    { << >>, <<97>>, <<32, 97, 10>>, marker, <<32>> \o marker \o <<10>>,
      <<115, 32>> \o delimStart \o <<97>> }

MG_Init ==
    /\ InitRun("mergeDesc")
    /\ env = DefaultEnv
    /\ argv = << >>
    /\ flags = DefaultFlags
    /\ board = << >>
    /\ now = 0
    /\ confirmed = FALSE
    /\ store = << >>
    /\ input \in { <<mode, existing, suggestion>> :
                       mode \in MergeModes, existing \in MergeTexts, suggestion \in MergeTexts }

MG_Apply ==
    /\ script = "mergeDesc" /\ pc = "main"
    /\ LET once == mergeDesc(input[1], input[2], input[3])
       IN output' = << once, mergeDesc(input[1], once, input[3]) >>
    /\ pc' = "exit"
    /\ UNCHANGED <<runVars, exitCode, log, confirmed, prompts, slot, cards, work, idx,
                   decided, sub, store, input>>

MG_Next == MG_Apply

SpecMergeDesc == MG_Init /\ [][MG_Next]_vars

(* C28: with merge mode prepend or append a description that already holds  *)
(* the marker "AI Description (proposed)" is left as it is, so merging a    *)
(* second time gives what merging once gave; with mode replace the result   *)
(* is exactly the suggestion.                                               *)
C28_MergeOnce ==
    (script = "mergeDesc" /\ output # << >>) =>
        /\ (input[1] \in { "prepend", "append" } /\ includes(input[2], marker))
               => output[1] = input[2]
        /\ input[1] \in { "prepend", "append" } => output[2] = output[1]
        /\ input[1] = "replace" => output[1] = input[3]

C28_Witness ==
    /\ script = "mergeDesc" /\ output # << >>
    /\ input[1] = "append"
    /\ ~includes(input[2], marker)
    /\ input[2] # << >>
    /\ output[1] # input[2]
    /\ output[2] = output[1]

----------------------------------------------------------------------------
(* C29: in moveDoingTicketsToNextDueDate the k-th due time written is the   *)
(* k-th time of the preview and is for the k-th assigned card; both start   *)
(* at 09:00 today when the hour is before 12 and at 09:00 tomorrow          *)
(* otherwise, and advance by 120 minutes per card; when the user declines   *)
(* the move no card is updated.                                             *)
nextNine ==
    startOfDay(now) + 9 * TicksPerHour
        + (IF now - startOfDay(now) < 12 * TicksPerHour THEN 0 ELSE TicksPerDay)

C29_PreviewIsWritten ==
    script = "daily-report" =>
        /\ \A k \in DOMAIN dueWrites :
              /\ k <= Len(work) /\ k <= Len(output)
              /\ dueWrites[k].card = work[k].id
              /\ dueWrites[k].arg = output[k]
        /\ \A k \in DOMAIN output : output[k] = nextNine + (k - 1) * 120 * TicksPerMinute
        /\ (Len(decided) < 2 \/ ~decided[Len(decided)]) => dueWrites = << >>

C29_Witness ==
    /\ script = "daily-report" /\ pc = "exit"
    /\ Len(dueWrites) = 2
    /\ dueWrites[2].ok
    /\ dueWrites[2].arg = startOfDay(now) + TicksPerDay + 11 * TicksPerHour

----------------------------------------------------------------------------
(* C24: daily-report-to-mattermost sends its posts one after the other in   *)
(* report order, the summary first and then the tickets in file order, and  *)
(* only after a "yes" to the send prompt; the move prompt comes only after  *)
(* every one of them succeeded, and no due date is written without a "yes"  *)
(* to that second prompt.                                                   *)
posts == SelectSeq(log, LAMBDA r : r.op = "postToChannel")

expectedPosts ==
    (IF input.summary THEN << 0 >> ELSE << >>) \o [k \in 1..input.tickets |-> k]

C24_SendThenConfirmThenMove ==
    script = "daily-report" =>
        /\ MutatingRequests # {} => (decided # << >> /\ decided[1])
        /\ Len(posts) <= Len(expectedPosts)
        /\ \A k \in DOMAIN posts :
              /\ posts[k].arg = expectedPosts[k]
              /\ k < Len(posts) => posts[k].ok
        /\ Len(decided) = 2 =>
              /\ decided[1]
              /\ Len(posts) = Len(expectedPosts)
              /\ \A k \in DOMAIN posts : posts[k].ok
        /\ dueWrites # << >> =>
              /\ Len(decided) = 2 /\ decided[2]
              /\ \A i \in DOMAIN log, j \in DOMAIN log :
                    (log[i].op = "postToChannel" /\ log[j].op = "updateCardDue") => i < j

C24_Witness ==
    /\ script = "daily-report" /\ pc = "exit"
    /\ input.summary /\ input.tickets = 2
    /\ Len(posts) = 3
    /\ dueWrites # << >> /\ dueWrites[1].ok

----------------------------------------------------------------------------
(* C30: in review-week a card is moved only right after its dueComplete was *)
(* set to true with success in the same run, only to the resolved Done      *)
(* list, and only when it is not in that list already; dueComplete is set   *)
(* only for confirmed candidates, and no card of the resolved Done list is  *)
(* a candidate.                                                             *)
C30_CompleteThenMove ==
    script = "review-week" =>
        /\ \A i \in DOMAIN log :
              log[i].op = "moveCardToList" =>
                  /\ doneListId # 0 /\ log[i].arg = doneListId
                  /\ i > 1
                  /\ log[i - 1] = Request("setCardDueComplete", TRUE, log[i].card, 1, TRUE)
                  /\ \E k \in DOMAIN work :
                        work[k].id = log[i].card /\ work[k].idList # doneListId
        /\ \A i \in DOMAIN log :
              log[i].op = "setCardDueComplete" =>
                  \E k \in DOMAIN work :
                      work[k].id = log[i].card /\ k <= Len(decided) /\ decided[k]
        /\ \A k \in DOMAIN work : doneListId = 0 \/ work[k].idList # doneListId
        /\ (pc = "loop" /\ idx > 1 /\ decided[idx - 1] /\ doneListId # 0) =>
              \E i \in DOMAIN log : log[i].op = "moveCardToList" /\ log[i].card = work[idx - 1].id

C30_Witness ==
    /\ script = "review-week" /\ pc = "exit"
    /\ env.doneListId = 3 /\ Len(board) >= 3 /\ board[3].name = "Review"
    /\ \E i \in DOMAIN log : log[i].op = "moveCardToList" /\ log[i].ok

====
